---------------------------- MODULE Spec2Model ----------------------------
(***************************************************************************)
(* Model of the acquisition-to-tracking pipeline of rucachi/onfra:         *)
(*   src/vision/camera.py           CameraThread (frame source)            *)
(*   src/vision/tracker_pipeline.py TrackerPipeline (single template)      *)
(*   src/vision/multi_tracker.py    SingleTracker, MultiTrackerPipeline    *)
(*   src/vision/recipe.py           RecipeManager (template store)         *)
(*                                                                         *)
(* Conventions.                                                            *)
(*  - Python None of a tuple/array valued field is the empty sequence.     *)
(*  - Scores are fixed point: ScoreOne units make 1.0, so that             *)
(*    inliers/20, matches/30 and 0.3 are all exact integers.               *)
(*  - An image is abstracted to what OpenCV reports about it: the number   *)
(*    of keypoints found and, per template, the ratio-test survivors, the  *)
(*    RANSAC outcome, the reprojected corners and the matched points.      *)
(***************************************************************************)
EXTENDS Integers, Sequences, FiniteSets, TLC

(***************************************************************************)
(* Program constants                                                       *)
(***************************************************************************)
MaxFailCount == 5
QueueMaxSize == 2
MinFrameKeypoints == 10
MinGoodMatches == 8
MinInliers == 6
MinSimplePoints == 4
MinBoxSide == 20
OutsideMargin == 50
HomScoreDiv == 20
SimpleScoreDiv == 30

\* 1.0 in fixed-point score units (a common multiple of 20, 30 and 10)
ScoreOne == 3 * HomScoreDiv
\* the carry-over confidence 0.3
CarryScore == (3 * ScoreOne) \div 10

(***************************************************************************)
(* Bounds of the model                                                     *)
(***************************************************************************)
\* frame.shape[1] and frame.shape[0] of every frame of the run
FrameW == 640
FrameH == 480
\* a run stops feeding frames once a fail counter has grown this far
FailCountCap == 7
\* frames read from the device / passed to put_frame in one run
MaxFrames == 4
\* frames passed to put_frame in one run of the coordinator
MaxCoordFrames == 2
\* frames a tracker processed before force_reacquire meets process_frame
MaxWarm == 2
\* failed reads of the device in a row
MaxReadFails == 2

None == <<>>

Min(a, b) == IF a <= b THEN a ELSE b
Max(a, b) == IF a >= b THEN a ELSE b

IDLE == "IDLE"
SEARCH == "SEARCH"
TRACK == "TRACK"
LOST == "LOST"
REACQUIRE == "REACQUIRE"
TrackingState == {IDLE, SEARCH, TRACK, LOST, REACQUIRE}

(***************************************************************************)
(* cv2.boundingRect of a non-empty sequence of integer points:             *)
(* (min x, min y, max x - min x + 1, max y - min y + 1).                   *)
(***************************************************************************)
SetMin(S) == CHOOSE v \in S : \A u \in S : v <= u
SetMax(S) == CHOOSE v \in S : \A u \in S : v >= u
RectOf(xs, ys) ==
  <<SetMin(xs), SetMin(ys),
    SetMax(xs) - SetMin(xs) + 1, SetMax(ys) - SetMin(ys) + 1>>
BoundingRect(pts) ==
  RectOf({pts[i][1] : i \in DOMAIN pts}, {pts[i][2] : i \in DOMAIN pts})

\* the four corners of the axis-aligned box (x, y, w, h), in template order
Quad(x, y, w, h) ==
  << <<x, y>>, <<x + w - 1, y>>, <<x + w - 1, y + h - 1>>, <<x, y + h - 1>> >>


(***************************************************************************)
(* Recipes (templates) and the recipe directory                            *)
(***************************************************************************)
RecipeNames == {"A", "B", "C", "X"}

\* Names a caller may give a recipe: the training page strips the text and
\* only requires it to be non-empty, so "A/" is a name as good as "A"
StoreNames == RecipeNames \cup {"A/"}

\* recipes_dir / name: pathlib drops a trailing separator, so the names
\* "A" and "A/" resolve to one directory
recipe_dir(name) == IF name = "A/" THEN "A" ELSE name

\* An image: its identity, the keypoints ORB finds in it, width and height
Image(id, kp, w, h) == [id |-> id, kp |-> kp, size |-> <<w, h>>]

\* What an ORB detector extracts from an image: the detector (the recipe
\* manager's finds up to 1000 features, a tracker's up to 2000), the image
\* and the number of keypoints, which is also the number of descriptor rows
Features(orb, img) == [by |-> orb, of |-> img.id, rows |-> img.kp]

\* orb.detectAndCompute: one descriptor row per keypoint, and no descriptor
\* array at all when there is no keypoint
detectAndCompute(orb, img) ==
  [keypoints |-> Features(orb, img),
   descriptors |-> IF img.kp = 0 THEN None ELSE Features(orb, img)]

\* Recipe dataclass; ok = FALSE stands for a None return.  created_at, a
\* wall-clock stamp no operation reads back, is left out.
NoRecipe ==
  [ok |-> FALSE, name |-> "", roi |-> None, notes |-> "",
   template_img |-> None, keypoints |-> None, descriptors |-> None,
   keypoint_count |-> 0]

MinRecipeKeypoints == 10

\* create_recipe with a stricter-by-one test, len(keypoints) < 9
create_recipe_nine(name, roi_img, roi, notes) ==
  IF roi_img = None THEN NoRecipe
  ELSE IF \/ detectAndCompute("recipe", roi_img).descriptors = None
          \/ detectAndCompute("recipe", roi_img).keypoints.rows
               < MinRecipeKeypoints - 1
  THEN NoRecipe
  ELSE [ok |-> TRUE, name |-> name, roi |-> roi, notes |-> notes,
        template_img |-> roi_img,
        keypoints |-> detectAndCompute("recipe", roi_img).keypoints,
        descriptors |-> detectAndCompute("recipe", roi_img).descriptors,
        keypoint_count |-> detectAndCompute("recipe", roi_img).keypoints.rows]

\* RecipeManager.create_recipe; a missing image raises inside the try
\* block and gives None
create_recipe(name, roi_img, roi, notes) ==
  IF roi_img = None THEN NoRecipe
  ELSE IF \/ detectAndCompute("recipe", roi_img).descriptors = None
          \/ detectAndCompute("recipe", roi_img).keypoints.rows
               < MinRecipeKeypoints
  THEN NoRecipe
  ELSE [ok |-> TRUE, name |-> name, roi |-> roi, notes |-> notes,
        template_img |-> roi_img,
        keypoints |-> detectAndCompute("recipe", roi_img).keypoints,
        descriptors |-> detectAndCompute("recipe", roi_img).descriptors,
        keypoint_count |-> detectAndCompute("recipe", roi_img).keypoints.rows]

\* Content of a file that exists but cannot be parsed
Corrupt == [corrupt |-> TRUE]

\* A recipe directory that does not exist
NoDir == [dir |-> FALSE, meta |-> None, img |-> None, desc |-> None]

\* metadata.json as save_recipe writes it
Metadata(r) ==
  [name |-> r.name, roi |-> r.roi, notes |-> r.notes,
   keypoint_count |-> r.keypoint_count]

\* The directory a complete save_recipe(r) leaves
SavedDir(r) ==
  [dir |-> TRUE, meta |-> Metadata(r), img |-> r.template_img,
   desc |-> r.descriptors]

\* The recipes saved before the program starts
InitialRecipe(d) ==
  create_recipe(d, Image(d, 40, 100, 100), <<10, 10, 100, 100>>, "")

\* The recipe directories at start.  A and B are complete; C has lost a
\* readable template.png (cv2.imread then returns None without raising);
\* X was never saved.
InitialStore ==
  [d \in RecipeNames |->
     IF d = "X" THEN NoDir
     ELSE IF d = "C" THEN [SavedDir(InitialRecipe(d)) EXCEPT !.img = None]
     ELSE SavedDir(InitialRecipe(d))]

\* json.load of metadata.json and np.load of descriptors.npy succeed
Readable(file) == file # None /\ file # Corrupt

\* cv2.imread: None for a missing or undecodable file
imread(file) == IF Readable(file) THEN file ELSE None

\* RecipeManager.load_recipe against the directory contents st
load_recipe(st, name) ==
  IF ~st[recipe_dir(name)].dir THEN NoRecipe
  ELSE IF ~Readable(st[recipe_dir(name)].meta)
          \/ ~Readable(st[recipe_dir(name)].desc) THEN NoRecipe
  ELSE [ok |-> TRUE, name |-> st[recipe_dir(name)].meta.name,
        roi |-> st[recipe_dir(name)].meta.roi,
        notes |-> st[recipe_dir(name)].meta.notes,
        template_img |-> imread(st[recipe_dir(name)].img),
        keypoints |-> None,
        descriptors |-> st[recipe_dir(name)].desc,
        keypoint_count |-> st[recipe_dir(name)].meta.keypoint_count]

\* Where writing to the disk can fail during save_recipe: nowhere, at the
\* mkdir, while writing metadata.json, inside cv2.imwrite (which reports it
\* by a return value that save_recipe does not look at), or inside np.save
SaveOutcomes == {"ok", "mkdir", "meta", "imwrite", "npy"}

\* RecipeManager.save_recipe with the disk behaving as io says: the
\* directory, metadata.json, template.png and descriptors.npy are written
\* in this order and an exception at one of them ends the call with False.
\* cv2.imwrite raises when the recipe carries no image.
save_recipe(st, r, io) ==
  IF io = "mkdir" THEN [ok |-> FALSE, st |-> st]
  ELSE IF io = "meta"
  THEN [ok |-> FALSE,
        st |-> [st EXCEPT ![recipe_dir(r.name)].dir = TRUE,
                          ![recipe_dir(r.name)].meta = Corrupt]]
  ELSE IF r.template_img = None
  THEN [ok |-> FALSE,
        st |-> [st EXCEPT ![recipe_dir(r.name)].dir = TRUE,
                          ![recipe_dir(r.name)].meta = Metadata(r)]]
  ELSE IF io = "npy"
  THEN [ok |-> FALSE,
        st |-> [st EXCEPT ![recipe_dir(r.name)].dir = TRUE,
                          ![recipe_dir(r.name)].meta = Metadata(r),
                          ![recipe_dir(r.name)].img = r.template_img,
                          ![recipe_dir(r.name)].desc = Corrupt]]
  ELSE IF io = "imwrite"
  THEN [ok |-> TRUE,
        st |-> [st EXCEPT ![recipe_dir(r.name)].dir = TRUE,
                          ![recipe_dir(r.name)].meta = Metadata(r),
                          ![recipe_dir(r.name)].desc = r.descriptors]]
  ELSE [ok |-> TRUE, st |-> [st EXCEPT ![recipe_dir(r.name)] = SavedDir(r)]]

\* The files of a recipe directory
RecipeFiles == {"meta", "img", "desc"}

\* Directory entry e after the files in gone were unlinked
Unlinked(e, gone) ==
  [dir |-> TRUE,
   meta |-> IF "meta" \in gone THEN None ELSE e.meta,
   img |-> IF "img" \in gone THEN None ELSE e.img,
   desc |-> IF "desc" \in gone THEN None ELSE e.desc]

\* RecipeManager.delete_recipe: the files are unlinked in the order the
\* directory lists them; gone is the set unlinked before an unlink raised
\* (all of them when none did), and only then is the directory removed
delete_recipe(st, name, gone) ==
  IF ~st[recipe_dir(name)].dir THEN [ok |-> FALSE, st |-> st]
  ELSE IF gone = RecipeFiles
  THEN [ok |-> TRUE, st |-> [st EXCEPT ![recipe_dir(name)] = NoDir]]
  ELSE [ok |-> FALSE,
        st |-> [st EXCEPT ![recipe_dir(name)] = Unlinked(@, gone)]]

\* RecipeManager.list_recipes: the names of the directories that hold a
\* metadata.json, whatever is in it (the code returns them sorted)
list_recipes(st) ==
  {d \in DOMAIN st : st[d].dir /\ st[d].meta # None}

(***************************************************************************)
(* Frames.  A frame carries its identity, the number of ORB keypoints      *)
(* found in it and, for each template, what matching that template against *)
(* it yields: good = ratio-test survivors, H = findHomography returned a   *)
(* matrix, inliers = RANSAC mask sum, corners = the template corners       *)
(* through H (as int32), pts = the matched frame points (their extremes).  *)
(***************************************************************************)
FeatNone ==
  [good |-> 0, H |-> FALSE, inliers |-> 0, corners |-> None, pts |-> None]
FeatHom(x, y, w, h, good, inl) ==
  [good |-> good, H |-> TRUE, inliers |-> inl, corners |-> Quad(x, y, w, h),
   pts |-> << <<x + 8, y + 8>>, <<x + w - 9, y + h - 9>> >>]
\* enough matches, too few inliers: only the fallback estimate is available
FeatLow(x, y, w, h, good) ==
  [good |-> good, H |-> TRUE, inliers |-> 4, corners |-> Quad(x, y, w, h),
   pts |-> << <<x, y>>, <<x + w - 1, y + h - 1>> >>]

Blank == [kp |-> 0, feat |-> [n \in RecipeNames |-> FeatNone]]
Scene1 ==
  [kp |-> 300,
   feat |-> [n \in RecipeNames |->
               IF n = "A" THEN FeatHom(0, 0, 100, 100, 25, 20)
               ELSE IF n = "B" THEN FeatLow(8, 8, 84, 84, 8)
               ELSE IF n = "C" THEN FeatLow(8, 8, 84, 84, 9)
               ELSE FeatNone]]
Scene2 ==
  [kp |-> 300,
   feat |-> [n \in RecipeNames |->
               IF n = "A" THEN FeatHom(50, 0, 100, 100, 12, 10)
               ELSE IF n = "B" THEN FeatHom(0, 0, 100, 100, 25, 20)
               ELSE FeatNone]]
Scene3 ==
  [kp |-> 300,
   feat |-> [n \in RecipeNames |->
               IF n = "A" THEN FeatLow(8, 8, 84, 84, 8)
               ELSE IF n = "B" THEN FeatHom(50, 0, 100, 100, 12, 10)
               ELSE IF n = "C" THEN FeatLow(8, 8, 84, 84, 35)
               ELSE FeatNone]]
\* a degenerate homography: the reprojected box is 10 x 10
Scene4 ==
  [kp |-> 300,
   feat |-> [n \in RecipeNames |->
               IF n = "A" THEN FeatHom(200, 200, 10, 10, 12, 10)
               ELSE FeatNone]]
\* the object of template A six pixels right of where Scene1 shows it, found
\* with more than 20 inliers
Scene5 ==
  [kp |-> 300,
   feat |-> [n \in RecipeNames |->
               IF n = "A" THEN FeatHom(6, 0, 100, 100, 30, 24) ELSE FeatNone]]
Scenes == {Blank, Scene1, Scene2, Scene3, Scene4, Scene5}

\* the frame of identity id showing scene sc
MkFrame(id, sc) ==
  [id |-> id, w |-> FrameW, h |-> FrameH, kp |-> sc.kp, feat |-> sc.feat]

(***************************************************************************)
(* Matching                                                                *)
(***************************************************************************)
\* a None return of a matching routine
NoMatch ==
  [ok |-> FALSE, bbox |-> None, corners |-> None, score |-> 0,
   matches |-> 0, inliers |-> 0]

\* _match_orb_simple: the box of template proportions (tw x th) around the
\* centre of the matched points' rectangle r, 1.2 times the larger of the
\* two scales: scale = max(w / tw, h / th), new_w = int(tw * scale * 1.2),
\* new_h = int(th * scale * 1.2), x = max(0, cx - new_w // 2)
ScaledW(r, tw, th) ==
  IF r[3] * th >= r[4] * tw THEN (12 * r[3]) \div 10
  ELSE (12 * tw * r[4]) \div (10 * th)
ScaledH(r, tw, th) ==
  IF r[3] * th >= r[4] * tw THEN (12 * th * r[3]) \div (10 * tw)
  ELSE (12 * r[4]) \div 10
BoxAround(cx, cy, w, h) ==
  <<Max(0, cx - w \div 2), Max(0, cy - h \div 2), w, h>>
SimpleBox(r, tw, th) ==
  IF tw > 0 /\ th > 0
  THEN BoxAround(r[1] + r[3] \div 2, r[2] + r[4] \div 2,
                 ScaledW(r, tw, th), ScaledH(r, tw, th))
  ELSE r

\* _match_orb_simple from the validity check on, for the estimated box b
\* and good matches
SimpleResult(frame, good, b) ==
  IF b[3] < MinBoxSide \/ b[4] < MinBoxSide
     \/ b[3] > frame.w \/ b[4] > frame.h
  THEN NoMatch
  ELSE [ok |-> TRUE, bbox |-> b, corners |-> None,
        score |-> Min(ScoreOne, (good * ScoreOne) \div SimpleScoreDiv),
        matches |-> good, inliers |-> 0]

\* TrackerPipeline._match_orb_simple on the good matches f of frame
TP_match_orb_simple(t, frame, f) ==
  IF f.good < MinSimplePoints THEN NoMatch
  ELSE SimpleResult(frame, f.good,
                    SimpleBox(BoundingRect(f.pts),
                              t.template_size[1], t.template_size[2]))

\* The homography path with the score left as inliers / 20
HomographyCheck_unclamped(frame, f, r) ==
  IF r[3] < MinBoxSide \/ r[4] < MinBoxSide
     \/ 10 * r[3] > 9 * frame.w \/ 10 * r[4] > 9 * frame.h
  THEN NoMatch
  ELSE IF r[1] < -OutsideMargin \/ r[2] < -OutsideMargin
          \/ r[1] + r[3] > frame.w + OutsideMargin
          \/ r[2] + r[4] > frame.h + OutsideMargin
  THEN NoMatch
  ELSE [ok |-> TRUE, bbox |-> <<Max(0, r[1]), Max(0, r[2]), r[3], r[4]>>,
        corners |-> f.corners,
        score |-> (f.inliers * ScoreOne) \div HomScoreDiv,
        matches |-> f.good, inliers |-> f.inliers]

\* The homography path reporting the box where the reprojection put it
HomographyCheck_unclipped(frame, f, r) ==
  IF r[3] < MinBoxSide \/ r[4] < MinBoxSide
     \/ 10 * r[3] > 9 * frame.w \/ 10 * r[4] > 9 * frame.h
  THEN NoMatch
  ELSE IF r[1] < -OutsideMargin \/ r[2] < -OutsideMargin
          \/ r[1] + r[3] > frame.w + OutsideMargin
          \/ r[2] + r[4] > frame.h + OutsideMargin
  THEN NoMatch
  ELSE [ok |-> TRUE, bbox |-> r, corners |-> f.corners,
        score |-> Min(ScoreOne, (f.inliers * ScoreOne) \div HomScoreDiv),
        matches |-> f.good, inliers |-> f.inliers]

\* The validity checks without the lower limit on the box sides
HomographyCheck_any_size(frame, f, r) ==
  IF 10 * r[3] > 9 * frame.w \/ 10 * r[4] > 9 * frame.h
  THEN NoMatch
  ELSE IF r[1] < -OutsideMargin \/ r[2] < -OutsideMargin
          \/ r[1] + r[3] > frame.w + OutsideMargin
          \/ r[2] + r[4] > frame.h + OutsideMargin
  THEN NoMatch
  ELSE [ok |-> TRUE, bbox |-> <<Max(0, r[1]), Max(0, r[2]), r[3], r[4]>>,
        corners |-> f.corners,
        score |-> Min(ScoreOne, (f.inliers * ScoreOne) \div HomScoreDiv),
        matches |-> f.good, inliers |-> f.inliers]

\* The homography path of both classes from the bounding rectangle r of the
\* reprojected corners on: validity checks, clamping, score.
HomographyCheck(frame, f, r) ==
  IF r[3] < MinBoxSide \/ r[4] < MinBoxSide
     \/ 10 * r[3] > 9 * frame.w \/ 10 * r[4] > 9 * frame.h
  THEN NoMatch
  ELSE IF r[1] < -OutsideMargin \/ r[2] < -OutsideMargin
          \/ r[1] + r[3] > frame.w + OutsideMargin
          \/ r[2] + r[4] > frame.h + OutsideMargin
  THEN NoMatch
  ELSE [ok |-> TRUE, bbox |-> <<Max(0, r[1]), Max(0, r[2]), r[3], r[4]>>,
        corners |-> f.corners,
        score |-> Min(ScoreOne, (f.inliers * ScoreOne) \div HomScoreDiv),
        matches |-> f.good, inliers |-> f.inliers]

HomographyResult(frame, f) ==
  HomographyCheck(frame, f, BoundingRect(f.corners))

\* TrackerPipeline._match_orb_with_homography once the frame has enough
\* keypoints.  The fallback is taken when the template keypoints are
\* absent, no homography is found or it has fewer than 6 inliers; keypoints
\* left over from an earlier recipe (set_recipe keeps them when the new
\* recipe has no image) give RANSAC unrelated point pairs, hence no
\* homography with 6 inliers either.
TP_match_features(t, frame, f) ==
  IF f.good < MinGoodMatches THEN NoMatch
  ELSE IF \/ t.template_keypoints = None
          \/ t.template_keypoints # t.template_descriptors
          \/ ~f.H
          \/ f.inliers < MinInliers
  THEN TP_match_orb_simple(t, frame, f)
  ELSE HomographyResult(frame, f)

\* TrackerPipeline._match_orb_with_homography
TP_match_orb_with_homography(t, frame) ==
  IF t.template_descriptors = None THEN NoMatch
  ELSE IF frame.kp < MinFrameKeypoints THEN NoMatch
  ELSE TP_match_features(t, frame, frame.feat[t.recipe])

\* SingleTracker._match_orb_with_homography once the frame has enough
\* keypoints: every shortfall returns None, there is no fallback
ST_match_features(t, frame, f) ==
  IF f.good < MinGoodMatches THEN NoMatch
  ELSE IF t.template_keypoints = None THEN NoMatch
  ELSE IF ~f.H THEN NoMatch
  ELSE IF f.inliers < MinInliers THEN NoMatch
  ELSE HomographyResult(frame, f)

\* SingleTracker._match_orb_with_homography
ST_match_orb_with_homography(t, frame) ==
  IF frame.kp < MinFrameKeypoints THEN NoMatch
  ELSE ST_match_features(t, frame, frame.feat[t.recipe])

(***************************************************************************)
(* Smoothing.  Per coordinate the code evaluates, in IEEE double           *)
(* precision,   int(alpha * new + (1 - alpha) * prev)   with alpha = 0.6.  *)
(* The double 0.6 is (3*2^53 - 1) / (5*2^53) and 1 - 0.6 is computed       *)
(* exactly as (2*2^53 + 1) / (5*2^53).  With w = 1 / (5*2^54), alpha is    *)
(* 3/5 - 2w and 1 - alpha is 2/5 + 2w.  Every intermediate value is kept   *)
(* as a pair (N, D) meaning N/5 + D*w: N/5 is the exact decimal value and  *)
(* D the accumulated rounding error, a small integer.  A double in         *)
(* [2^(e-2), 2^(e-1)) has spacing 2^(e-54), which is 5 * 2^e in units of   *)
(* w.  Coordinates are non-negative here.                                  *)
(***************************************************************************)
\* 2^m modulo 5
P5(m) == <<1, 2, 4, 3>>[(m % 4) + 1]

\* N/5 + D*w is at least 2^(e-2)
InBinade(N, D, e) == 4 * N > 5 * 2^e \/ (4 * N = 5 * 2^e /\ D >= 0)

\* the e with 2^(e-2) <= N/5 + D*w < 2^(e-1), for N >= 2
Binade(N, D) ==
  CHOOSE e \in 0..20 : InBinade(N, D, e) /\ ~InBinade(N, D, e + 1)

\* (N * 2^54 + D) modulo 5 * 2^(e + k), for k in {0, 1}: the value in units
\* of w, modulo the spacing of its binade (k = 0) or twice that (k = 1)
Residue(N, D, e, k) ==
  (2^(e + k) * ((N * P5(54 - e - k)) % 5) + D + 8 * 5 * 2^(e + k))
    % (5 * 2^(e + k))

\* round to nearest, ties to the even mantissa: the error D after rounding
\* a value with residue rho modulo the spacing g and v2 modulo 2g
RoundNearestEven(D, rho, g, v2) ==
  IF 2 * rho > g \/ (2 * rho = g /\ ((v2 - rho) \div g) % 2 = 1)
  THEN D + g - rho
  ELSE D - rho

RoundIn(N, D, e) ==
  RoundNearestEven(D, Residue(N, D, e, 0), 5 * 2^e, Residue(N, D, e, 1))

\* the error of the double nearest to N/5 + D*w
Fl(N, D) == IF N = 0 THEN 0 ELSE RoundIn(N, D, Binade(N, D))

\* int(): the integer part of N/5 + D*w
Truncated(N, D) == IF N % 5 = 0 /\ D < 0 THEN N \div 5 - 1 ELSE N \div 5

\* alpha * new + (1 - alpha) * prev: two products and a sum, each rounded
SmoothSum(N, dx, dy) == Truncated(N, Fl(N, dx + dy))

SmoothCoord(new, prev) ==
  SmoothSum(3 * new + 2 * prev, Fl(3 * new, -2 * new), Fl(2 * prev, 2 * prev))

\* _smooth_bbox smoothing a first bbox against the origin
smooth_bbox_unseeded(prev_bbox, new_bbox) ==
  [i \in 1..4 |-> SmoothCoord(new_bbox[i],
                             IF prev_bbox = None THEN 0 ELSE prev_bbox[i])]

\* _smooth_bbox of both classes: the value returned, which is also the
\* new prev_bbox
smooth_bbox(prev_bbox, new_bbox) ==
  IF prev_bbox = None THEN new_bbox
  ELSE [i \in 1..4 |-> SmoothCoord(new_bbox[i], prev_bbox[i])]

(***************************************************************************)
(* Tracker objects.  TrackerPipeline and SingleTracker hold the same       *)
(* fields; a tracker is a record of them (color is the palette index, 0    *)
(* for TrackerPipeline, which has none).  template_keypoints and           *)
(* template_descriptors name the data they were computed from.             *)
(***************************************************************************)
NumColors == 10

\* TrackerPipeline.__init__
TP_init ==
  [recipe |-> "", color |-> 0, state |-> IDLE,
   template_keypoints |-> None, template_descriptors |-> None,
   template_size |-> <<0, 0>>,
   current_bbox |-> None, current_corners |-> None,
   fail_count |-> 0, prev_bbox |-> None]

\* TrackerPipeline.set_recipe
TP_set_recipe(t, r) ==
  LET b == [t EXCEPT !.recipe = r.name, !.state = SEARCH,
                     !.current_bbox = None, !.prev_bbox = None,
                     !.fail_count = 0]
  IN IF r.template_img # None
     THEN [b EXCEPT !.template_keypoints =
                       detectAndCompute("tracker", r.template_img).keypoints,
                    !.template_descriptors =
                       detectAndCompute("tracker", r.template_img).descriptors,
                    !.template_size = r.template_img.size]
     ELSE [b EXCEPT !.template_descriptors = r.descriptors,
                    !.template_size =
                       IF r.roi # None THEN <<r.roi[3], r.roi[4]>> ELSE @]

\* force_reacquire without the line that clears the fail counter
TP_force_reacquire_keeps_count(t) ==
  [t EXCEPT !.state = REACQUIRE, !.current_bbox = None, !.prev_bbox = None]

\* TrackerPipeline.force_reacquire
TP_force_reacquire(t) ==
  [t EXCEPT !.state = REACQUIRE, !.current_bbox = None,
            !.prev_bbox = None, !.fail_count = 0]

\* SingleTracker.__init__ with _setup_template
ST_init(r, color) ==
  [recipe |-> r.name, color |-> color, state |-> SEARCH,
   template_keypoints |->
      IF r.template_img # None
      THEN detectAndCompute("tracker", r.template_img).keypoints ELSE None,
   template_descriptors |->
      IF r.template_img # None
      THEN detectAndCompute("tracker", r.template_img).descriptors
      ELSE r.descriptors,
   template_size |->
      IF r.template_img # None THEN r.template_img.size
      ELSE IF r.roi # None THEN <<r.roi[3], r.roi[4]>> ELSE <<0, 0>>,
   current_bbox |-> None, current_corners |-> None,
   fail_count |-> 0, prev_bbox |-> None]

\* SingleTracker.reset
ST_reset(t) ==
  [t EXCEPT !.state = SEARCH, !.current_bbox = None,
            !.current_corners = None, !.prev_bbox = None, !.fail_count = 0]

(***************************************************************************)
(* Per-frame processing.  Each operator returns the tracker after the      *)
(* frame and the result dictionary built for it.                           *)
(***************************************************************************)
\* the success branch without the line that clears the fail counter
matched_keeps_count(t, m, smoothed) ==
  [t |-> [t EXCEPT !.prev_bbox = smoothed, !.current_bbox = smoothed,
                   !.current_corners = m.corners, !.state = TRACK],
   bbox |-> smoothed, corners |-> m.corners, score |-> m.score,
   matches |-> m.matches]

\* the branch of both process_frame methods taken when the match succeeded,
\* smoothed being what _smooth_bbox returned (and stored as prev_bbox)
matched(t, m, smoothed) ==
  [t |-> [t EXCEPT !.prev_bbox = smoothed, !.current_bbox = smoothed,
                   !.current_corners = m.corners, !.fail_count = 0,
                   !.state = TRACK],
   bbox |-> smoothed, corners |-> m.corners, score |-> m.score,
   matches |-> m.matches]

on_match(t, m) == matched(t, m, smooth_bbox(t.prev_bbox, m.bbox))

\* the failure branch with the threshold compared one too late
failed_one_late(t, n) ==
  IF t.current_bbox # None /\ n <= MaxFailCount
  THEN [t |-> [t EXCEPT !.fail_count = n],
        bbox |-> t.current_bbox, corners |-> t.current_corners,
        score |-> CarryScore, matches |-> 0]
  ELSE IF n > MaxFailCount
  THEN [t |-> [t EXCEPT !.fail_count = n, !.state = LOST,
                        !.current_bbox = None, !.prev_bbox = None],
        bbox |-> None, corners |-> None, score |-> 0, matches |-> 0]
  ELSE [t |-> [t EXCEPT !.fail_count = n],
        bbox |-> None, corners |-> None, score |-> 0, matches |-> 0]

\* the failure branch with the carried-over result at full confidence
failed_full_score(t, n) ==
  IF t.current_bbox # None /\ n < MaxFailCount
  THEN [t |-> [t EXCEPT !.fail_count = n],
        bbox |-> t.current_bbox, corners |-> t.current_corners,
        score |-> ScoreOne, matches |-> 0]
  ELSE IF n >= MaxFailCount
  THEN [t |-> [t EXCEPT !.fail_count = n, !.state = LOST,
                        !.current_bbox = None, !.prev_bbox = None],
        bbox |-> None, corners |-> None, score |-> 0, matches |-> 0]
  ELSE [t |-> [t EXCEPT !.fail_count = n],
        bbox |-> None, corners |-> None, score |-> 0, matches |-> 0]

\* the failure branch going LOST without clearing the previous bbox
failed_keeps_prev(t, n) ==
  IF t.current_bbox # None /\ n < MaxFailCount
  THEN [t |-> [t EXCEPT !.fail_count = n],
        bbox |-> t.current_bbox, corners |-> t.current_corners,
        score |-> CarryScore, matches |-> 0]
  ELSE IF n >= MaxFailCount
  THEN [t |-> [t EXCEPT !.fail_count = n, !.state = LOST,
                        !.current_bbox = None],
        bbox |-> None, corners |-> None, score |-> 0, matches |-> 0]
  ELSE [t |-> [t EXCEPT !.fail_count = n],
        bbox |-> None, corners |-> None, score |-> 0, matches |-> 0]

\* the failure branch reporting the stored corners even without a bbox
failed_emits_corners(t, n) ==
  IF t.current_bbox # None /\ n < MaxFailCount
  THEN [t |-> [t EXCEPT !.fail_count = n],
        bbox |-> t.current_bbox, corners |-> t.current_corners,
        score |-> CarryScore, matches |-> 0]
  ELSE IF n >= MaxFailCount
  THEN [t |-> [t EXCEPT !.fail_count = n, !.state = LOST,
                        !.current_bbox = None, !.prev_bbox = None],
        bbox |-> None, corners |-> t.current_corners, score |-> 0,
        matches |-> 0]
  ELSE [t |-> [t EXCEPT !.fail_count = n],
        bbox |-> None, corners |-> t.current_corners, score |-> 0,
        matches |-> 0]

\* the branch of both process_frame methods taken when the match failed,
\* n being the incremented fail counter
failed(t, n) ==
  IF t.current_bbox # None /\ n < MaxFailCount
  THEN [t |-> [t EXCEPT !.fail_count = n],
        bbox |-> t.current_bbox, corners |-> t.current_corners,
        score |-> CarryScore, matches |-> 0]
  ELSE IF n >= MaxFailCount
  THEN [t |-> [t EXCEPT !.fail_count = n, !.state = LOST,
                        !.current_bbox = None, !.prev_bbox = None],
        bbox |-> None, corners |-> None, score |-> 0, matches |-> 0]
  ELSE [t |-> [t EXCEPT !.fail_count = n],
        bbox |-> None, corners |-> None, score |-> 0, matches |-> 0]

on_no_match(t) == failed(t, t.fail_count + 1)

\* both process_frame methods after the matching call returned m
after_match(t, m) == IF m.ok THEN on_match(t, m) ELSE on_no_match(t)

\* what a frame processed without matching leaves and reports
untouched(t) ==
  [t |-> t, bbox |-> None, corners |-> None, score |-> 0, matches |-> 0]

\* TrackerPipeline._process_frame, LOST branch: automatic re-search
TP_on_lost(t) ==
  [t |-> [t EXCEPT !.state = REACQUIRE],
   bbox |-> None, corners |-> None, score |-> 0, matches |-> 0]

\* TrackerPipeline._process_frame: the state machine
TP_step(t, frame) ==
  IF t.state = IDLE THEN untouched(t)
  ELSE IF t.state \in {SEARCH, REACQUIRE, TRACK}
  THEN after_match(t, TP_match_orb_with_homography(t, frame))
  ELSE IF t.state = LOST THEN TP_on_lost(t)
  ELSE untouched(t)

\* the result dictionary of TrackerPipeline._process_frame
TP_result(s) ==
  [t |-> s.t,
   result |-> [state |-> s.t.state, bbox |-> s.bbox, corners |-> s.corners,
               score |-> s.score, matches |-> s.matches]]

\* TrackerPipeline._process_frame: the tracker after the frame and the
\* result emitted with frame_processed
TP_process_frame(t, frame) == TP_result(TP_step(t, frame))

\* SingleTracker.process_frame: no branch on the state
ST_step(t, frame) ==
  IF t.template_descriptors = None THEN untouched(t)
  ELSE after_match(t, ST_match_orb_with_homography(t, frame))

\* the result dictionary of SingleTracker.process_frame
ST_result(t, s) ==
  [t |-> s.t,
   result |-> [name |-> t.recipe, color |-> t.color, state |-> s.t.state,
               bbox |-> s.bbox, corners |-> s.corners, score |-> s.score,
               matches |-> s.matches]]

\* SingleTracker.process_frame: the tracker after the frame and the result
\* dictionary returned
ST_process_frame(t, frame) == ST_result(t, ST_step(t, frame))

(***************************************************************************)
(* MultiTrackerPipeline: the tracker list                                  *)
(***************************************************************************)
RECURSIVE BuildTrackers(_, _, _)
\* the loop of MultiTrackerPipeline.set_recipes from index i (1-based) on
BuildTrackers(st, names, i) ==
  IF i > Len(names) THEN <<>>
  ELSE LET r == load_recipe(st, names[i])
       IN (IF r.ok THEN <<ST_init(r, (i - 1) % NumColors)>> ELSE <<>>)
          \o BuildTrackers(st, names, i + 1)

\* MultiTrackerPipeline.set_recipes run to completion: the new tracker list
MT_set_recipes(st, names) == BuildTrackers(st, names, 1)

\* MultiTrackerPipeline.force_reacquire run to completion
MT_force_reacquire(trs) == [i \in DOMAIN trs |-> ST_reset(trs[i])]

\* the trackers and the result list out of the per-tracker outcomes
Collect(outs) ==
  [trackers |-> [i \in DOMAIN outs |-> outs[i].t],
   results |-> [i \in DOMAIN outs |-> outs[i].result]]

\* MultiTrackerPipeline._process_frame run to completion: the trackers
\* after the frame and the result list emitted with it
MT_process_frame(trs, frame) ==
  Collect([i \in DOMAIN trs |-> ST_process_frame(trs[i], frame)])

(***************************************************************************)
(* State                                                                   *)
(***************************************************************************)
VARIABLES
  store,     \* the recipe directory
  tp,        \* the TrackerPipeline object
  trackers,  \* MultiTrackerPipeline.trackers
  tpOut,     \* last frame_processed emission of TrackerPipeline, if any
  mtOut,     \* last frame_processed emission of MultiTrackerPipeline, if any
  lastOp,    \* the operation that led to this state
  tpRun,     \* observer: frames since TrackerPipeline was in TRACK with
             \* fail counter 0 and a bbox, while they kept failing (-1: n/a)
  mtRun,     \* observer: the same per tracker of MultiTrackerPipeline
  paired,    \* observer: both pipelines got the same single template and
             \* the same operations and match outcomes since
  tpMatch,   \* observer: what matching the last frame gave TrackerPipeline
  mtMatch,   \* observer: the same per tracker of MultiTrackerPipeline
  forceRun,  \* observer: force-reacquire calls in a row, counted up to 2
  forceSnap, \* observer: the trackers as the first call of that row left them
  tpSeed,    \* observer: TrackerPipeline had no successful match since its
             \* template was assigned, it was forced to re-search or went LOST
  mtSeed,    \* observer: the same per tracker of MultiTrackerPipeline
  tpTwin,    \* observer: a TrackerPipeline put in SEARCH by set_recipe when
             \* tp entered REACQUIRE and given the same frames since, with
             \* the result of its last frame (None: no such episode)
  fed,       \* observer: the frame both pipelines processed last, if any
  tpGood,    \* observer: <<corners>> of TrackerPipeline's last successful
             \* match since its template was assigned, it was forced to
             \* re-search or went LOST (<<>>: no such match)
  mtGood     \* observer: the same per tracker of MultiTrackerPipeline

trackVars ==
  <<store, tp, trackers, tpOut, mtOut, lastOp, tpRun, mtRun, paired,
    tpMatch, mtMatch, forceRun, forceSnap, tpSeed, mtSeed, tpTwin, fed,
    tpGood, mtGood>>

\* The three frame queues driven by one thread (no concurrency).
VARIABLES
  seqQ,       \* per queue owner: the frame_queue contents, oldest first
  seqPushed,  \* per queue owner: frames pushed so far (frame ids 1..n)
  seqPopped   \* per queue owner: the frames popped after the pushes

seqVars == <<seqQ, seqPushed, seqPopped>>

\* One frame queue shared by its producer and consumer threads.
VARIABLES
  sys,         \* whose queue this is: "camera", "tp" or "mt"
  q,           \* frame_queue contents, oldest first
  nextId,      \* frames handed to the queue's producers so far
  stop_event,  \* the owning thread's stop_event
  is_opened,   \* CameraThread.is_opened
  cap,         \* CameraThread.cap: None, or how its VideoCapture stands
  camPc,       \* position of CameraThread.run
  camCur,      \* the frame CameraThread.run is pushing (0: none)
  prodPc,      \* per caller thread: position inside put_frame
  prodCur,     \* per caller thread: the frame passed to put_frame (0: none)
  conPc,       \* position of the pipeline's run loop
  conCur,      \* the frame the run loop holds (0: none)
  delivered,   \* observer: frames handed to the consumer side, in order
  pushLog,     \* observer: one record per finished push / put_frame call
  raised,      \* observer: the frames whose processing raised, in order
  errors,      \* observer: the frames reported by error_occurred.emit
  readFails,   \* observer: failed reads of CameraThread.run in a row
  retried,     \* observer: the last frame read right after a failed read
  atStop       \* observer: what stop() found when it is observed: the
               \* number of frames processed so far, those waiting in the
               \* queue (without the one run is taking) and the last
               \* frame handed over

queueVars ==
  <<sys, q, nextId, stop_event, is_opened, cap, camPc, camCur, prodPc,
    prodCur, conPc, conCur, delivered, pushLog, raised, errors, readFails,
    retried, atStop>>

\* MultiTrackerPipeline with its caller thread and its consumption thread.
VARIABLES
  mtTrackers,  \* self.trackers
  mtQ,         \* self.frame_queue, oldest first
  mtFrames,    \* frames passed to put_frame so far
  callPc,      \* the caller thread: "idle" or its position in a method
  callArg,     \* the argument of that call (names, or the frame)
  callIdx,     \* the index of its loop over names / trackers
  runPc,       \* the consumption thread: "get" or "iter"
  runFrame,    \* the frame _process_frame was called with
  runIdx,      \* the list iterator of its loop over self.trackers
  runResults,  \* its local results list
  emitted      \* observer: the last frame_processed emission, if any

coordVars ==
  <<mtTrackers, mtQ, mtFrames, callPc, callArg, callIdx, runPc, runFrame,
    runIdx, runResults, emitted>>

\* trackVars without the recipe directory
pipeVars ==
  <<tp, tpOut, mtOut, lastOp, tpRun, mtRun, paired, tpMatch, mtMatch,
    forceRun, forceSnap, tpSeed, mtSeed, tpTwin, fed, tpGood, mtGood>>

\* The caller of RecipeManager.
VARIABLES
  current_recipe,  \* the recipe the caller holds (TrainingPage.current_recipe)
  storeCalls,      \* calls made so far
  storeOp,         \* observer: the last call on the recipe manager
  lastSaved,       \* observer: per name, the recipe of the last save_recipe
                   \* that returned True, until delete_recipe(name) does
  halfDeleted      \* observer: the names whose delete_recipe removed files
                   \* and returned False, until a save or delete succeeds

storeVars == <<current_recipe, storeCalls, storeOp, lastSaved, halfDeleted>>

\* The camera device and the settings CameraThread keeps of it.
VARIABLES
  device,    \* per property: the value the device works with
  settings,  \* per property: CameraThread.width and height, fps, exposure,
             \* gain (None until written)
  setCalls,  \* setter calls made so far
  setCall    \* observer: the last setter call, whether the device applied
             \* its value, and what the call returned

settingVars == <<device, settings, setCalls, setCall>>

\* One SingleTracker of MultiTrackerPipeline with force_reacquire on the
\* caller thread while the consumption thread is inside process_frame.
VARIABLES
  rt,        \* the SingleTracker object
  rWarm,     \* frames it processed before the two calls
  rFrame,    \* the frame process_frame was called with (None: not yet)
  resetPc,   \* reset(): the next of its five assignments (0: not called,
             \* 6: returned)
  procPc,    \* process_frame: its position
  procM,     \* process_frame: the local match_result
  procSm,    \* _smooth_bbox: the local smoothed bbox
  procFc,    \* the fail counter read by self.fail_count += 1
  rExpect    \* observer: the tracker after the two calls run one after the
             \* other, in either order

raceVars ==
  <<rt, rWarm, rFrame, resetPc, procPc, procM, procSm, procFc, rExpect>>

vars ==
  <<trackVars, seqVars, queueVars, coordVars, storeVars, settingVars, raceVars>>

\* the templates a caller selects for both pipelines
PairNames == {"A", "C", "X"}

\* observer step: frames processed since the tracker was last in TRACK with
\* fail counter 0 and a known bbox, as long as the first five of them failed
\* to match; 6 marks the frame after those five
NextRun(run, after, nomatch) ==
  IF after.state = TRACK /\ after.fail_count = 0 /\ after.current_bbox # None
  THEN 0
  ELSE IF run \in 0..4 /\ nomatch THEN run + 1
  ELSE IF run = 5 THEN 6
  ELSE -1

TrackInit ==
  /\ store = InitialStore
  /\ tp = TP_init
  /\ trackers = <<>>
  /\ tpOut = <<>>
  /\ mtOut = <<>>
  /\ lastOp = "init"
  /\ tpRun = -1
  /\ mtRun = <<>>
  /\ paired = FALSE
  /\ tpMatch = NoMatch
  /\ mtMatch = <<>>
  /\ forceRun = 0
  /\ forceSnap = <<>>
  /\ tpSeed = FALSE
  /\ mtSeed = <<>>
  /\ tpTwin = None
  /\ fed = None
  /\ tpGood = <<>>
  /\ mtGood = <<>>

\* observer step: the corners of the last successful match since the
\* tracker was cleared; matching: the frame was matched; u: the tracker
\* after the frame
NextGood(good, matching, m, u) ==
  IF matching /\ m.ok THEN <<m.corners>>
  ELSE IF u.state = LOST THEN <<>>
  ELSE good

\* observer step: whether the next successful match is the first one since
\* the tracker was cleared; matching: the frame was matched; u: the tracker
\* after the frame
NextSeed(seed, matching, m, u) ==
  IF matching /\ m.ok THEN FALSE
  ELSE IF u.state = LOST THEN TRUE
  ELSE seed

\* observer: the tracker set_recipe makes of t with t's own recipe, before
\* any frame
Twin(t) ==
  IF t.recipe = "" \/ ~load_recipe(store, t.recipe).ok THEN None
  ELSE TP_result(untouched(TP_set_recipe(t, load_recipe(store, t.recipe))))

\* observer step for a frame: u is tp after the frame
NextTwin(u, frame) ==
  IF tp.state = LOST /\ u.state = REACQUIRE THEN Twin(u)
  ELSE IF tpTwin # None THEN TP_process_frame(tpTwin.t, frame)
  ELSE None

\* The caller selects one template for both pipelines: set_recipe on
\* TrackerPipeline when the recipe loads, set_recipes([name]) on
\* MultiTrackerPipeline.
SetRecipe(name) ==
  LET r == load_recipe(store, name)
  IN /\ tp' = IF r.ok THEN TP_set_recipe(tp, r) ELSE tp
     /\ trackers' = MT_set_recipes(store, <<name>>)
     /\ tpRun' = -1
     /\ mtRun' = [i \in DOMAIN trackers' |-> -1]
     /\ paired' = r.ok
     /\ tpMatch' = NoMatch
     /\ mtMatch' = <<>>
     /\ lastOp' = "set"
     /\ forceRun' = 0
     /\ forceSnap' = <<>>
     /\ tpSeed' = (tpSeed \/ r.ok)
     /\ mtSeed' = [i \in DOMAIN trackers' |-> TRUE]
     /\ tpTwin' = IF r.ok THEN None ELSE tpTwin
     /\ tpGood' = IF r.ok THEN <<>> ELSE tpGood
     /\ mtGood' = [i \in DOMAIN trackers' |-> <<>>]
     /\ UNCHANGED fed
     /\ UNCHANGED <<store, tpOut, mtOut>>
     /\ UNCHANGED <<seqVars, queueVars, coordVars, raceVars, storeVars, settingVars>>

\* Feed with the outcomes named: a of TrackerPipeline._process_frame, b of
\* MultiTrackerPipeline._process_frame, and what matching the frame yields
\* in TrackerPipeline (mtp) and in each SingleTracker (mst)
FeedOutcome(frame, a, b, mtp, mst) ==
  /\ tp' = a.t
  /\ tpOut' = <<[frame |-> frame.id, result |-> a.result]>>
  /\ trackers' = b.trackers
  /\ mtOut' = <<[frame |-> frame.id, results |-> b.results]>>
  /\ tpRun' = NextRun(tpRun, a.t, ~mtp.ok)
  /\ mtRun' = [i \in DOMAIN mst |-> NextRun(mtRun[i], b.trackers[i], ~mst[i].ok)]
  /\ paired' = (paired /\ Len(mst) = 1 /\ mst[1] = mtp)
  /\ tpMatch' = mtp
  /\ mtMatch' = mst
  /\ lastOp' = "frame"
  /\ forceRun' = 0
  /\ forceSnap' = <<>>
  /\ tpSeed' = NextSeed(tpSeed, tp.state \in {SEARCH, REACQUIRE, TRACK}, mtp, a.t)
  /\ mtSeed' = [i \in DOMAIN mst |->
                  NextSeed(mtSeed[i], trackers[i].template_descriptors # None,
                           mst[i], b.trackers[i])]
  /\ tpTwin' = NextTwin(a.t, frame)
  /\ fed' = frame
  /\ tpGood' = NextGood(tpGood, tp.state \in {SEARCH, REACQUIRE, TRACK}, mtp, a.t)
  /\ mtGood' = [i \in DOMAIN mst |->
                  NextGood(mtGood[i], trackers[i].template_descriptors # None,
                           mst[i], b.trackers[i])]
  /\ UNCHANGED store
  /\ UNCHANGED <<seqVars, queueVars, coordVars, raceVars, storeVars, settingVars>>

FeedFrame(frame) ==
  FeedOutcome(frame, TP_process_frame(tp, frame),
              MT_process_frame(trackers, frame),
              TP_match_orb_with_homography(tp, frame),
              [i \in DOMAIN trackers |->
                 ST_match_orb_with_homography(trackers[i], frame)])

\* The same frame is processed by both pipelines (_process_frame of each).
Feed(sc) ==
  /\ tp.fail_count < FailCountCap
  /\ \A i \in DOMAIN trackers : trackers[i].fail_count < FailCountCap
  /\ FeedFrame(MkFrame(0, sc))

\* The caller forces a re-search on both pipelines.
ForceReacquire ==
  /\ tp' = TP_force_reacquire(tp)
  /\ trackers' = MT_force_reacquire(trackers)
  /\ tpRun' = -1
  /\ mtRun' = [i \in DOMAIN trackers |-> -1]
  /\ lastOp' = "force"
  /\ tpMatch' = NoMatch
  /\ mtMatch' = <<>>
  /\ forceRun' = Min(2, forceRun + 1)
  /\ forceSnap' = IF forceRun = 0 THEN <<tp', trackers'>> ELSE forceSnap
  /\ tpSeed' = TRUE
  /\ mtSeed' = [i \in DOMAIN trackers |-> TRUE]
  /\ tpTwin' = Twin(tp')
  /\ tpGood' = <<>>
  /\ mtGood' = [i \in DOMAIN trackers |-> <<>>]
  /\ UNCHANGED fed
  /\ UNCHANGED <<store, tpOut, mtOut, paired>>
  /\ UNCHANGED <<seqVars, queueVars, coordVars, raceVars, storeVars, settingVars>>

\* Reprojected boxes around the limits of the validity checks of
\* _match_orb_with_homography, for frames of FrameW x FrameH
GeomBoxes ==
  {<<0, 0, 100, 100>>,
   <<200, 200, MinBoxSide - 1, 100>>, <<200, 200, MinBoxSide, 100>>,
   <<200, 200, 100, MinBoxSide - 1>>, <<200, 200, 100, MinBoxSide>>,
   <<10, 10, (9 * FrameW) \div 10, 100>>,
   <<10, 10, (9 * FrameW) \div 10 + 1, 100>>,
   <<10, 10, 100, (9 * FrameH) \div 10>>,
   <<10, 10, 100, (9 * FrameH) \div 10 + 1>>,
   <<-OutsideMargin, 0, 100, 100>>, <<-OutsideMargin - 1, 0, 100, 100>>,
   <<0, -OutsideMargin, 100, 100>>, <<0, -OutsideMargin - 1, 100, 100>>,
   <<FrameW + OutsideMargin - 100, 0, 100, 100>>,
   <<FrameW + OutsideMargin - 99, 0, 100, 100>>,
   <<0, FrameH + OutsideMargin - 100, 100, 100>>,
   <<0, FrameH + OutsideMargin - 99, 100, 100>>}

\* a scene in which every template is found by a homography with 10
\* inliers that reprojects it to the box b
GeomScene(b) ==
  [kp |-> 300,
   feat |-> [n \in RecipeNames |-> FeatHom(b[1], b[2], b[3], b[4], 12, 10)]]

\* Both pipelines process a frame showing the templates at box b; once a
\* tracker holds a bbox only frames it does not match are fed to it.
FeedGeom(b) ==
  /\ tp.fail_count < FailCountCap
  /\ \A i \in DOMAIN trackers : trackers[i].fail_count < FailCountCap
  /\ \/ tp.prev_bbox = None
     \/ ~TP_match_orb_with_homography(tp, MkFrame(0, GeomScene(b))).ok
  /\ \A i \in DOMAIN trackers :
       \/ trackers[i].prev_bbox = None
       \/ ~ST_match_orb_with_homography(trackers[i],
                                        MkFrame(0, GeomScene(b))).ok
  /\ FeedFrame(MkFrame(0, GeomScene(b)))

GeomNext ==
  \/ \E name \in PairNames : SetRecipe(name)
  \/ \E b \in GeomBoxes : FeedGeom(b)
  \/ ForceReacquire

\* Scenes around the limits of a reported bbox: reprojected boxes of the
\* smallest accepted size, one reaching 50 px beyond the left edge of the
\* frame, and matched points whose fallback estimate is cut at the frame's
\* origin
BoxSmall ==
  [kp |-> 300,
   feat |-> [n \in RecipeNames |->
               FeatHom(0, 0, MinBoxSide, MinBoxSide, 12, 10)]]
BoxSmallMoved ==
  [kp |-> 300,
   feat |-> [n \in RecipeNames |->
               FeatHom(3, 0, MinBoxSide, MinBoxSide + 1, 12, 10)]]
BoxOutside ==
  [kp |-> 300,
   feat |-> [n \in RecipeNames |->
               FeatHom(-OutsideMargin, -3, MinBoxSide + 3, MinBoxSide + 2,
                       12, 10)]]
BoxFallback ==
  [kp |-> 300,
   feat |-> [n \in RecipeNames |-> FeatLow(0, 0, 17, 17, 8)]]
BoxScenes == {Blank, BoxSmall, BoxSmallMoved, BoxOutside, BoxFallback}

BoxNext ==
  \/ \E name \in PairNames : SetRecipe(name)
  \/ \E sc \in BoxScenes : Feed(sc)
  \/ ForceReacquire

TrackNext ==
  \/ \E name \in PairNames : SetRecipe(name)
  \/ \E sc \in Scenes : Feed(sc)
  \/ ForceReacquire

(***************************************************************************)
(* The frame queues: queue.Queue(maxsize=2) of CameraThread,               *)
(* TrackerPipeline and MultiTrackerPipeline.  Every Queue method is atomic *)
(* (it holds the queue's mutex); a handler that calls several of them is   *)
(* a sequence of steps other threads can interleave with.                  *)
(***************************************************************************)

QueueOwners == {"camera", "tp", "mt"}
Producers == {1, 2}

\* Queue.full() of a queue that takes one more item
full_at_three(qu) == Len(qu) >= QueueMaxSize + 1

\* Queue.full()
full(qu) == Len(qu) >= QueueMaxSize

\* Queue.get_nowait() / Queue.get() on a non-empty queue: the oldest item
q_get_newest(qu) ==
  [item |-> qu[Len(qu)], rest |-> SubSeq(qu, 1, Len(qu) - 1)]

q_get(qu) == [item |-> Head(qu), rest |-> Tail(qu)]

\* the queue after the oldest item was taken, and the item, as arguments
Took(s, g, pc) ==
  [s EXCEPT !.pc = pc, !.q = g.rest, !.dropped = Append(@, g.item)]

\* Queue.put(frame, block=False) on a queue with room
Put(s, f, pc) == [s EXCEPT !.pc = pc, !.q = Append(@, f), !.stored = TRUE]

\* a push that starts at position pc on queue qu
PushState(pc, qu) == [pc |-> pc, q |-> qu, dropped |-> <<>>, stored |-> FALSE]

\* One queue operation of the acquisition push in CameraThread.run:
\*   try: put(frame, block=False)
\*   except Full: try: get_nowait(); put(frame, block=False)  except: pass
CAM_push_step_keep_old(s, f) ==
  CASE s.pc = "put" ->
         IF full(s.q) THEN [s EXCEPT !.pc = "done"] ELSE Put(s, f, "done")
    [] OTHER -> s

CAM_push_step(s, f) ==
  CASE s.pc = "put" ->
         IF full(s.q) THEN [s EXCEPT !.pc = "drop"] ELSE Put(s, f, "done")
    [] s.pc = "drop" ->
         IF s.q = <<>> THEN [s EXCEPT !.pc = "done"]
         ELSE Took(s, q_get(s.q), "reput")
    [] s.pc = "reput" ->
         IF full(s.q) THEN [s EXCEPT !.pc = "done"] ELSE Put(s, f, "done")
    [] OTHER -> s

\* One queue operation of TrackerPipeline.put_frame:
\*   try:
\*     if full(): try: get_nowait()  except Empty: pass
\*     put(frame, block=False)
\*   except Exception: log
TP_put_frame_step(s, f) ==
  CASE s.pc = "full" ->
         IF full(s.q) THEN [s EXCEPT !.pc = "get"] ELSE [s EXCEPT !.pc = "put"]
    [] s.pc = "get" ->
         IF s.q = <<>> THEN [s EXCEPT !.pc = "put"]
         ELSE Took(s, q_get(s.q), "put")
    [] s.pc = "put" ->
         IF full(s.q) THEN [s EXCEPT !.pc = "done"] ELSE Put(s, f, "done")
    [] OTHER -> s

\* One queue operation of MultiTrackerPipeline.put_frame (the same code).
MT_put_frame_step(s, f) ==
  CASE s.pc = "full" ->
         IF full(s.q) THEN [s EXCEPT !.pc = "get"] ELSE [s EXCEPT !.pc = "put"]
    [] s.pc = "get" ->
         IF s.q = <<>> THEN [s EXCEPT !.pc = "put"]
         ELSE Took(s, q_get(s.q), "put")
    [] s.pc = "put" ->
         IF full(s.q) THEN [s EXCEPT !.pc = "done"] ELSE Put(s, f, "done")
    [] OTHER -> s

\* The handlers run without interruption: at most three queue operations.
CAM_push(qu, f) ==
  CAM_push_step(CAM_push_step(CAM_push_step(PushState("put", qu), f), f), f)

TP_put_frame(qu, f) ==
  TP_put_frame_step(
    TP_put_frame_step(TP_put_frame_step(PushState("full", qu), f), f), f)

MT_put_frame(qu, f) ==
  MT_put_frame_step(
    MT_put_frame_step(MT_put_frame_step(PushState("full", qu), f), f), f)

PushInto(k, qu, f) ==
  CASE k = "camera" -> CAM_push(qu, f)
    [] k = "tp" -> TP_put_frame(qu, f)
    [] k = "mt" -> MT_put_frame(qu, f)

(***************************************************************************)
(* The queues driven by one thread: pushes, then pops.                     *)
(***************************************************************************)

SeqInit ==
  /\ seqQ = [k \in QueueOwners |-> <<>>]
  /\ seqPushed = [k \in QueueOwners |-> 0]
  /\ seqPopped = [k \in QueueOwners |-> <<>>]

\* the next frame is pushed into owner k's queue; no pop has happened yet
SeqPush(k) ==
  /\ seqPopped[k] = <<>>
  /\ seqPushed[k] < MaxFrames
  /\ seqPushed' = [seqPushed EXCEPT ![k] = @ + 1]
  /\ seqQ' = [seqQ EXCEPT ![k] = PushInto(k, @, seqPushed[k] + 1).q]
  /\ UNCHANGED seqPopped
  /\ UNCHANGED <<trackVars, queueVars, coordVars, raceVars, storeVars, settingVars>>

\* a frame is popped from owner k's queue (get_frame / the run loop's get)
SeqPop(k) ==
  /\ seqQ[k] # <<>>
  /\ seqQ' = [seqQ EXCEPT ![k] = q_get(@).rest]
  /\ seqPopped' = [seqPopped EXCEPT ![k] = Append(@, q_get(seqQ[k]).item)]
  /\ UNCHANGED seqPushed
  /\ UNCHANGED <<trackVars, queueVars, coordVars, raceVars, storeVars, settingVars>>

SeqNext ==
  \/ \E k \in QueueOwners : SeqPush(k)
  \/ \E k \in QueueOwners : SeqPop(k)

(***************************************************************************)
(* One queue with its threads.  sys names the queue: the CameraThread's,   *)
(* with run as producer and get_frame callers as consumers, or a           *)
(* pipeline's, with put_frame callers as producers and run as consumer.    *)
(***************************************************************************)

NoFrame == [id |-> 0, dropped |-> <<>>]

QueueStart(k) ==
  /\ sys = k
  /\ q = <<>>
  /\ nextId = 0
  /\ stop_event = FALSE
  /\ is_opened = FALSE
  /\ cap = None
  /\ camPc = IF k = "camera" THEN "loop" ELSE "off"
  /\ camCur = NoFrame
  /\ prodPc = [p \in Producers |-> "idle"]
  /\ prodCur = [p \in Producers |-> NoFrame]
  /\ conPc = IF k \in {"tp", "mt"} THEN "loop" ELSE "off"
  /\ conCur = 0
  /\ delivered = <<>>
  /\ pushLog = {}
  /\ raised = <<>>
  /\ errors = <<>>
  /\ readFails = 0
  /\ retried = 0

QueueInit == (\E k \in QueueOwners : QueueStart(k)) /\ atStop = None

\* the observer of stop() before the call, when it is to record it
Armed == [seen |-> -1, queued |-> {}, pushed |-> 0]

\* a pipeline whose stop() is observed
HaltInit == (\E k \in {"tp", "mt"} : QueueStart(k)) /\ atStop = Armed

\* the observer's record of a finished push by thread `by` (0: CameraThread)
Logged(by, cur, s) ==
  [by |-> by, frame |-> cur.id, stored |-> s.stored, dropped |-> s.dropped]

\* ---- CameraThread ----

\* A VideoCapture is open on the device, was created without getting the
\* device, or has been released
Opened == <<"opened">>
Failed == <<"failed">>
Released == <<"released">>

\* The device properties CameraThread sets
Props == {"resolution", "fps", "exposure", "gain"}

\* The setters that read the value back from the device
ReadBack == {"resolution", "fps"}

\* The value a device property has when the device is opened, and what
\* cap.get returns on a capture that is not open
DeviceDefault == 1
NotOpenValue == 0

\* The values callers ask for
RequestValues == {2, 3}

\* Setter calls in one run
MaxSetCalls == 2

SettingInit ==
  /\ device = [p \in Props |-> DeviceDefault]
  /\ settings = [p \in Props |-> None]
  /\ setCalls = 0
  /\ setCall = [prop |-> "", value |-> 0, applied |-> FALSE, ret |-> FALSE]

\* cap.get(prop)
cap_get(prop) == IF cap = Opened THEN device[prop] ELSE NotOpenValue

\* open_camera(): self.cap is replaced by a new VideoCapture, which got the
\* device or not; is_opened is written only when it did, and then width,
\* height and fps are read from the device
open_camera(ok) ==
  /\ sys = "camera"
  /\ cap' = IF ok THEN Opened ELSE Failed
  /\ is_opened' = (is_opened \/ ok)
  /\ settings' = IF ok THEN [p \in Props |->
                              IF p \in ReadBack THEN device[p]
                              ELSE settings[p]]
                 ELSE settings
  /\ UNCHANGED <<raised, errors, readFails, retried, atStop>>
  /\ UNCHANGED <<sys, q, nextId, stop_event, camPc, camCur, prodPc, prodCur,
                 conPc, conCur, delivered, pushLog>>
  /\ UNCHANGED <<device, setCalls, setCall>>
  /\ UNCHANGED <<trackVars, seqVars, coordVars, raceVars, storeVars>>

\* What the device does with cap.set(prop, value): it takes the value, it
\* keeps its own (cap.set returns False), or the call raises
DeviceReactions == {"applied", "ignored", "raised"}

\* The device after cap.set(prop, v)
cap_set(prop, v, react) ==
  IF react = "applied" /\ cap = Opened THEN [device EXCEPT ![prop] = v]
  ELSE device

\* A setter has run: dev is the device after it, kept the value it wrote
\* to its attribute (None: none written), ret what it returned
SetterDone(prop, v, dev, kept, ret) ==
  /\ sys = "camera"
  /\ setCalls < MaxSetCalls
  /\ setCalls' = setCalls + 1
  /\ device' = dev
  /\ settings' = IF kept = None THEN settings
                 ELSE [settings EXCEPT ![prop] = kept[1]]
  /\ setCall' = [prop |-> prop, value |-> v, applied |-> dev[prop] = v,
                 ret |-> ret]
  /\ UNCHANGED <<queueVars, trackVars, seqVars, coordVars, raceVars, storeVars>>

\* set_resolution and set_fps: cap.set, whose result is not looked at, then
\* the attribute is read back from the device
SetAndReadBack(prop, v, react, dev) ==
  IF ~is_opened \/ react = "raised"
  THEN SetterDone(prop, v, device, None, FALSE)
  ELSE SetterDone(prop, v, dev,
                  <<IF cap = Opened THEN dev[prop] ELSE NotOpenValue>>, TRUE)

\* set_exposure and set_gain: cap.set, whose result is not looked at, then
\* the attribute takes the requested value
SetAndKeep(prop, v, react, dev) ==
  IF ~is_opened \/ react = "raised"
  THEN SetterDone(prop, v, device, None, FALSE)
  ELSE SetterDone(prop, v, dev, <<v>>, TRUE)

set_resolution(v, react) ==
  SetAndReadBack("resolution", v, react, cap_set("resolution", v, react))

set_fps(v, react) == SetAndReadBack("fps", v, react, cap_set("fps", v, react))

set_exposure(v, react) ==
  SetAndKeep("exposure", v, react, cap_set("exposure", v, react))

set_gain(v, react) == SetAndKeep("gain", v, react, cap_set("gain", v, react))

\* stop(): stop_event.set()
stop ==
  /\ sys \in QueueOwners
  /\ ~stop_event
  /\ stop_event' = TRUE
  /\ atStop' = IF atStop # Armed THEN atStop
                ELSE [seen |-> Len(delivered),
                      queued |-> {q[i] : i \in (IF conPc = "get" THEN 2
                                                ELSE 1)..Len(q)},
                      pushed |-> nextId]
  /\ UNCHANGED <<raised, errors, readFails, retried>>
  /\ UNCHANGED <<sys, cap, q, nextId, is_opened, camPc, camCur, prodPc, prodCur,
                 conPc, conCur, delivered, pushLog>>
  /\ UNCHANGED <<trackVars, seqVars, coordVars, raceVars, storeVars, settingVars>>

\* run closing the camera and ending without having seen stop_event set
CamExit_unstopped ==
  /\ camPc = "loop"
  /\ camPc' = "done"
  /\ cap' = IF cap = None THEN None ELSE Released
  /\ is_opened' = (cap = None /\ is_opened)
  /\ UNCHANGED <<raised, errors, readFails, retried, atStop>>
  /\ UNCHANGED <<sys, q, nextId, stop_event, camCur, prodPc, prodCur,
                 conPc, conCur, delivered, pushLog>>
  /\ UNCHANGED <<trackVars, seqVars, coordVars, raceVars, storeVars, settingVars>>

\* run: the loop condition fails; close_camera() and the thread ends
CamExit ==
  /\ camPc = "loop"
  /\ stop_event
  /\ camPc' = "done"
  /\ cap' = IF cap = None THEN None ELSE Released
  /\ is_opened' = (cap = None /\ is_opened)
  /\ UNCHANGED <<raised, errors, readFails, retried, atStop>>
  /\ UNCHANGED <<sys, q, nextId, stop_event, camCur, prodPc, prodCur,
                 conPc, conCur, delivered, pushLog>>
  /\ UNCHANGED <<trackVars, seqVars, coordVars, raceVars, storeVars, settingVars>>

\* run: the device is not open: sleep and continue
CamSkip ==
  /\ camPc = "loop"
  /\ ~stop_event
  /\ ~is_opened
  /\ UNCHANGED queueVars
  /\ UNCHANGED <<trackVars, seqVars, coordVars, raceVars, storeVars, settingVars>>

\* run: cap.read() returns no frame: log, sleep and continue
CamReadFail ==
  /\ camPc = "loop"
  /\ ~stop_event
  /\ is_opened
  /\ readFails < MaxReadFails
  /\ readFails' = readFails + 1
  /\ UNCHANGED <<sys, q, nextId, stop_event, is_opened, cap, camPc, camCur,
                 prodPc, prodCur, conPc, conCur, delivered, pushLog, raised,
                 errors, retried, atStop>>
  /\ UNCHANGED <<trackVars, seqVars, coordVars, raceVars, storeVars, settingVars>>

\* run: cap.read() returns the next frame
CamRead ==
  /\ camPc = "loop"
  /\ ~stop_event
  /\ is_opened
  /\ cap = Opened
  /\ nextId < MaxFrames
  /\ nextId' = nextId + 1
  /\ camCur' = [id |-> nextId + 1, dropped |-> <<>>]
  /\ camPc' = "put"
  /\ readFails' = 0
  /\ retried' = IF readFails > 0 THEN nextId + 1 ELSE retried
  /\ UNCHANGED <<raised, errors, atStop>>
  /\ UNCHANGED <<sys, cap, q, stop_event, is_opened, prodPc, prodCur,
                 conPc, conCur, delivered, pushLog>>
  /\ UNCHANGED <<trackVars, seqVars, coordVars, raceVars, storeVars, settingVars>>

\* run: the push took one step to s
CamPushed(s) ==
  /\ q' = s.q
  /\ camPc' = IF s.pc = "done" THEN "loop" ELSE s.pc
  /\ camCur' = IF s.pc = "done" THEN NoFrame
               ELSE [camCur EXCEPT !.dropped = s.dropped]
  /\ pushLog' = IF s.pc = "done" THEN pushLog \cup {Logged(0, camCur, s)}
                ELSE pushLog
  /\ UNCHANGED <<raised, errors, readFails, retried, atStop>>
  /\ UNCHANGED <<sys, cap, nextId, stop_event, is_opened, prodPc, prodCur,
                 conPc, conCur, delivered>>
  /\ UNCHANGED <<trackVars, seqVars, coordVars, raceVars, storeVars, settingVars>>

CamPush ==
  /\ camPc \in {"put", "drop", "reput"}
  /\ CamPushed(CAM_push_step(
       [pc |-> camPc, q |-> q, dropped |-> camCur.dropped, stored |-> FALSE],
       camCur.id))

\* the consumer took the oldest frame
Handed(g) ==
  /\ q' = g.rest
  /\ delivered' = Append(delivered, g.item)

\* get_frame(timeout): the oldest frame, or None when the queue stays empty
get_frame ==
  /\ sys = "camera"
  /\ IF q # <<>> THEN Handed(q_get(q)) ELSE UNCHANGED <<q, delivered>>
  /\ UNCHANGED <<raised, errors, readFails, retried, atStop>>
  /\ UNCHANGED <<sys, cap, nextId, stop_event, is_opened, camPc, camCur, prodPc,
                 prodCur, conPc, conCur, pushLog>>
  /\ UNCHANGED <<trackVars, seqVars, coordVars, raceVars, storeVars, settingVars>>

\* ---- TrackerPipeline / MultiTrackerPipeline ----

\* caller thread p calls put_frame with the next frame
PutCall(p) ==
  /\ sys \in {"tp", "mt"}
  /\ prodPc[p] = "idle"
  /\ nextId < MaxFrames
  /\ nextId' = nextId + 1
  /\ prodCur' = [prodCur EXCEPT ![p] = [id |-> nextId + 1, dropped |-> <<>>]]
  /\ prodPc' = [prodPc EXCEPT ![p] = "full"]
  /\ UNCHANGED <<raised, errors, readFails, retried, atStop>>
  /\ UNCHANGED <<sys, cap, q, stop_event, is_opened, camPc, camCur,
                 conPc, conCur, delivered, pushLog>>
  /\ UNCHANGED <<trackVars, seqVars, coordVars, raceVars, storeVars, settingVars>>

\* put_frame of caller thread p took one step to s
PutStepped(p, s) ==
  /\ q' = s.q
  /\ prodPc' = [prodPc EXCEPT ![p] = IF s.pc = "done" THEN "idle" ELSE s.pc]
  /\ prodCur' = [prodCur EXCEPT ![p] = IF s.pc = "done" THEN NoFrame
                                       ELSE [@ EXCEPT !.dropped = s.dropped]]
  /\ pushLog' = IF s.pc = "done" THEN pushLog \cup {Logged(p, prodCur[p], s)}
                ELSE pushLog
  /\ UNCHANGED <<raised, errors, readFails, retried, atStop>>
  /\ UNCHANGED <<sys, cap, nextId, stop_event, is_opened, camPc, camCur,
                 conPc, conCur, delivered>>
  /\ UNCHANGED <<trackVars, seqVars, coordVars, raceVars, storeVars, settingVars>>

PutFrom(p, s, f) ==
  PutStepped(p, IF sys = "tp" THEN TP_put_frame_step(s, f)
                ELSE MT_put_frame_step(s, f))

PutStep(p) ==
  /\ prodPc[p] \in {"full", "get", "put"}
  /\ PutFrom(p, [pc |-> prodPc[p], q |-> q, dropped |-> prodCur[p].dropped,
                 stored |-> FALSE], prodCur[p].id)

\* the loop condition of run taken as always true
RunCheck_deaf ==
  /\ conPc = "loop"
  /\ conPc' = "get"
  /\ UNCHANGED <<raised, errors, readFails, retried, atStop>>
  /\ UNCHANGED <<sys, cap, q, nextId, stop_event, is_opened, camPc, camCur,
                 prodPc, prodCur, conCur, delivered, pushLog>>
  /\ UNCHANGED <<trackVars, seqVars, coordVars, raceVars, storeVars, settingVars>>

\* run: while not self.stop_event.is_set()
RunCheck ==
  /\ conPc = "loop"
  /\ conPc' = IF stop_event THEN "done" ELSE "get"
  /\ UNCHANGED <<raised, errors, readFails, retried, atStop>>
  /\ UNCHANGED <<sys, cap, q, nextId, stop_event, is_opened, camPc, camCur,
                 prodPc, prodCur, conCur, delivered, pushLog>>
  /\ UNCHANGED <<trackVars, seqVars, coordVars, raceVars, storeVars, settingVars>>

\* run: frame = self.frame_queue.get(timeout=0.1); Empty: continue
RunGet ==
  /\ conPc = "get"
  /\ IF q # <<>>
     THEN /\ q' = q_get(q).rest
          /\ conCur' = q_get(q).item
          /\ conPc' = "process"
     ELSE /\ conPc' = "loop"
          /\ UNCHANGED <<q, conCur>>
  /\ UNCHANGED <<raised, errors, readFails, retried, atStop>>
  /\ UNCHANGED <<sys, cap, nextId, stop_event, is_opened, camPc, camCur,
                 prodPc, prodCur, delivered, pushLog>>
  /\ UNCHANGED <<trackVars, seqVars, coordVars, raceVars, storeVars, settingVars>>

\* Frames of one run whose processing raises
MaxBadFrames == 2

\* What the frame in hand left behind: bad says its processing raised
Processed(bad) ==
  /\ delivered' = Append(delivered, conCur)
  /\ raised' = IF bad THEN Append(raised, conCur) ELSE raised
  /\ conCur' = 0

\* run with an exception of _process_frame ending the thread
RunProcess_fatal(bad) ==
  /\ conPc = "process"
  /\ bad => Len(raised) < MaxBadFrames
  /\ Processed(bad)
  /\ UNCHANGED <<readFails, retried, atStop>>
  /\ errors' = IF bad /\ sys = "tp" THEN Append(errors, conCur) ELSE errors
  /\ conPc' = IF bad THEN "dead" ELSE "loop"
  /\ UNCHANGED <<sys, cap, q, nextId, stop_event, is_opened, camPc, camCur,
                 prodPc, prodCur, pushLog>>
  /\ UNCHANGED <<trackVars, seqVars, coordVars, raceVars, storeVars, settingVars>>

\* run: self._process_frame(frame).  It emits frame_processed, or raises:
\* TrackerPipeline._process_frame catches the exception itself and emits
\* error_occurred; MultiTrackerPipeline._process_frame lets it through to
\* the except clause of run, which logs it.  Either way the loop goes on.
RunProcess(bad) ==
  /\ conPc = "process"
  /\ bad => Len(raised) < MaxBadFrames
  /\ Processed(bad)
  /\ UNCHANGED <<readFails, retried, atStop>>
  /\ errors' = IF bad /\ sys = "tp" THEN Append(errors, conCur) ELSE errors
  /\ conPc' = "loop"
  /\ UNCHANGED <<sys, cap, q, nextId, stop_event, is_opened, camPc, camCur,
                 prodPc, prodCur, pushLog>>
  /\ UNCHANGED <<trackVars, seqVars, coordVars, raceVars, storeVars, settingVars>>

QueueNext ==
  \/ \E ok \in BOOLEAN : open_camera(ok)
  \/ \E v \in RequestValues, react \in DeviceReactions :
        set_resolution(v, react)
  \/ \E v \in RequestValues, react \in DeviceReactions : set_fps(v, react)
  \/ \E v \in RequestValues, react \in DeviceReactions : set_exposure(v, react)
  \/ \E v \in RequestValues, react \in DeviceReactions : set_gain(v, react)
  \/ stop
  \/ CamExit
  \/ CamSkip
  \/ CamRead
  \/ CamPush
  \/ get_frame
  \/ \E p \in Producers : PutCall(p)
  \/ \E p \in Producers : PutStep(p)
  \/ RunCheck
  \/ RunGet
  \/ \E bad \in BOOLEAN : RunProcess(bad)

\* The steps of CameraThread.run that change the state (a sleep does not)
CamThread == CamExit \/ CamRead \/ CamPush

\* The steps of a pipeline's run
RunThread == RunCheck \/ RunGet \/ \E bad \in BOOLEAN : RunProcess(bad)

\* The threads and their callers without the camera setters
StopNext ==
  \/ \E ok \in BOOLEAN : open_camera(ok)
  \/ stop
  \/ CamExit
  \/ CamSkip
  \/ CamRead
  \/ CamPush
  \/ get_frame
  \/ \E p \in Producers : PutCall(p)
  \/ \E p \in Producers : PutStep(p)
  \/ RunCheck
  \/ RunGet
  \/ \E bad \in BOOLEAN : RunProcess(bad)

(***************************************************************************)
(* MultiTrackerPipeline between its two threads.  The caller thread runs   *)
(* set_recipes, force_reacquire and put_frame, one call at a time; the     *)
(* consumption thread runs run / _process_frame.  Nothing locks            *)
(* self.trackers: a step is one list operation or one tracker method.      *)
(***************************************************************************)

NameLists == {<<"A", "B", "C">>, <<"C">>, <<"X", "B">>}
CoordScenes == {Blank, Scene1}

CoordInit ==
  /\ mtTrackers = <<>>
  /\ mtQ = <<>>
  /\ mtFrames = 0
  /\ callPc = "idle"
  /\ callArg = <<>>
  /\ callIdx = 0
  /\ runPc = "get"
  /\ runFrame = <<>>
  /\ runIdx = 0
  /\ runResults = <<>>
  /\ emitted = <<>>

\* the pass of the loop with the new tracker put in front of the list
Registered_in_front(trs, r, i) ==
  IF r.ok THEN <<ST_init(r, (i - 1) % NumColors)>> \o trs ELSE trs

\* the list after one pass of the loop of set_recipes for names[i], which
\* loaded as r
Registered(trs, r, i) ==
  IF r.ok THEN Append(trs, ST_init(r, (i - 1) % NumColors)) ELSE trs

set_recipes_step(trs, st, names, i) ==
  Registered(trs, load_recipe(st, names[i]), i)

\* set_recipes(names) is called: self.trackers.clear()
CallSetRecipes(names) ==
  /\ callPc = "idle"
  /\ mtTrackers' = <<>>
  /\ callPc' = "set"
  /\ callArg' = names
  /\ callIdx' = 1
  /\ UNCHANGED <<mtQ, mtFrames, runPc, runFrame, runIdx, runResults, emitted>>
  /\ UNCHANGED <<trackVars, seqVars, queueVars, raceVars, storeVars, settingVars>>

\* set_recipes: one pass of the loop over recipe_names, or its end
SetRecipesStep ==
  /\ callPc = "set"
  /\ IF callIdx > Len(callArg)
     THEN /\ callPc' = "idle"
          /\ callArg' = <<>>
          /\ callIdx' = 0
          /\ UNCHANGED mtTrackers
     ELSE /\ mtTrackers' = set_recipes_step(mtTrackers, store, callArg, callIdx)
          /\ callIdx' = callIdx + 1
          /\ UNCHANGED <<callPc, callArg>>
  /\ UNCHANGED <<mtQ, mtFrames, runPc, runFrame, runIdx, runResults, emitted>>
  /\ UNCHANGED <<trackVars, seqVars, queueVars, raceVars, storeVars, settingVars>>

\* force_reacquire() is called: the loop over self.trackers starts
CallForceReacquire ==
  /\ callPc = "idle"
  /\ callPc' = "force"
  /\ callIdx' = 1
  /\ UNCHANGED <<mtTrackers, mtQ, mtFrames, callArg, runPc, runFrame, runIdx,
                 runResults, emitted>>
  /\ UNCHANGED <<trackVars, seqVars, queueVars, raceVars, storeVars, settingVars>>

\* force_reacquire: tracker.reset() on the next tracker, or the loop's end
ForceStep ==
  /\ callPc = "force"
  /\ IF callIdx > Len(mtTrackers)
     THEN /\ callPc' = "idle"
          /\ callIdx' = 0
          /\ UNCHANGED mtTrackers
     ELSE /\ mtTrackers' = [mtTrackers EXCEPT ![callIdx] = ST_reset(@)]
          /\ callIdx' = callIdx + 1
          /\ UNCHANGED callPc
  /\ UNCHANGED <<mtQ, mtFrames, callArg, runPc, runFrame, runIdx, runResults,
                 emitted>>
  /\ UNCHANGED <<trackVars, seqVars, queueVars, raceVars, storeVars, settingVars>>

\* put_frame(frame) is called with the next frame, showing scene sc
CallPutFrame(sc) ==
  /\ callPc = "idle"
  /\ mtFrames < MaxCoordFrames
  /\ mtFrames' = mtFrames + 1
  /\ callPc' = "full"
  /\ callArg' = MkFrame(mtFrames + 1, sc)
  /\ UNCHANGED <<mtTrackers, mtQ, callIdx, runPc, runFrame, runIdx,
                 runResults, emitted>>
  /\ UNCHANGED <<trackVars, seqVars, queueVars, raceVars, storeVars, settingVars>>

\* put_frame took one step to s
CoordPutStepped(s) ==
  /\ mtQ' = s.q
  /\ callPc' = IF s.pc = "done" THEN "idle" ELSE s.pc
  /\ callArg' = IF s.pc = "done" THEN <<>> ELSE callArg
  /\ UNCHANGED <<mtTrackers, mtFrames, callIdx, runPc, runFrame, runIdx,
                 runResults, emitted>>
  /\ UNCHANGED <<trackVars, seqVars, queueVars, raceVars, storeVars, settingVars>>

CoordPutStep ==
  /\ callPc \in {"full", "get", "put"}
  /\ CoordPutStepped(MT_put_frame_step(PushState(callPc, mtQ), callArg))

\* run: frame = self.frame_queue.get(timeout=0.1) returns a frame and
\* _process_frame(frame) starts: results = [], iter(self.trackers)
CoordGet ==
  /\ runPc = "get"
  /\ mtQ # <<>>
  /\ mtQ' = q_get(mtQ).rest
  /\ runFrame' = q_get(mtQ).item
  /\ runPc' = "iter"
  /\ runIdx' = 1
  /\ runResults' = <<>>
  /\ UNCHANGED <<mtTrackers, mtFrames, callPc, callArg, callIdx, emitted>>
  /\ UNCHANGED <<trackVars, seqVars, queueVars, raceVars, storeVars, settingVars>>

\* the iterator yields self.trackers[runIdx]; tracker.process_frame(frame)
\* gave o; results.append(result)
CoordTracked(o) ==
  /\ mtTrackers' = [mtTrackers EXCEPT ![runIdx] = o.t]
  /\ runResults' = Append(runResults, [from |-> runFrame.id, result |-> o.result])
  /\ runIdx' = runIdx + 1
  /\ UNCHANGED <<mtQ, mtFrames, callPc, callArg, callIdx, runPc, runFrame,
                 emitted>>
  /\ UNCHANGED <<trackVars, seqVars, queueVars, raceVars, storeVars, settingVars>>

CoordIter ==
  /\ runPc = "iter"
  /\ runIdx <= Len(mtTrackers)
  /\ CoordTracked(ST_process_frame(mtTrackers[runIdx], runFrame))

\* the iterator is exhausted: self.frame_processed.emit(frame, results)
CoordEmit ==
  /\ runPc = "iter"
  /\ runIdx > Len(mtTrackers)
  /\ emitted' = <<[frame |-> runFrame.id, results |-> runResults,
                   listed |-> [i \in DOMAIN mtTrackers |-> mtTrackers[i].recipe]]>>
  /\ runPc' = "get"
  /\ runFrame' = <<>>
  /\ runIdx' = 0
  /\ runResults' = <<>>
  /\ UNCHANGED <<mtTrackers, mtQ, mtFrames, callPc, callArg, callIdx>>
  /\ UNCHANGED <<trackVars, seqVars, queueVars, raceVars, storeVars, settingVars>>

CoordNext ==
  \/ \E names \in NameLists : CallSetRecipes(names)
  \/ SetRecipesStep
  \/ CallForceReacquire
  \/ ForceStep
  \/ \E sc \in CoordScenes : CallPutFrame(sc)
  \/ CoordPutStep
  \/ CoordGet
  \/ CoordIter
  \/ CoordEmit

(***************************************************************************)
(* The recipe manager and its caller.  One action per method call; what    *)
(* the disk does during the call is an input of the action.                *)
(***************************************************************************)
\* The names recipes are created and deleted under: two that resolve to one
\* directory
StoreCallNames == {"A", "A/"}

\* The region images a caller creates recipes from, by keypoints found
RegionImages ==
  {Image("r9", MinRecipeKeypoints - 1, 60, 50),
   Image("r10", MinRecipeKeypoints, 60, 50),
   Image("r40", 40, 100, 100)}

NoteTexts == {"", "n"}

\* The names a caller asks for
LoadNames == StoreCallNames \cup {"X"}

\* Calls made on the recipe manager in one run
MaxStoreCalls == 4

\* One more call is made
Called ==
  /\ storeCalls < MaxStoreCalls
  /\ storeCalls' = storeCalls + 1

StoreInit ==
  /\ current_recipe = NoRecipe
  /\ storeCalls = 0
  /\ storeOp = [op |-> "init", name |-> "", img |-> None, ok |-> TRUE,
                recipe |-> NoRecipe]
  /\ lastSaved = [n \in StoreNames |->
                    IF n \in {"A", "B", "C"} THEN InitialRecipe(n)
                    ELSE NoRecipe]
  /\ halfDeleted = {}

Created(name, img, r) ==
  /\ Called
  /\ current_recipe' = r
  /\ storeOp' = [op |-> "create", name |-> name, img |-> img, ok |-> r.ok,
                 recipe |-> r]
  /\ UNCHANGED <<store, trackers, lastSaved, halfDeleted>>
  /\ UNCHANGED <<pipeVars, seqVars, queueVars, coordVars, raceVars, settingVars>>

\* TrainingPage: create_recipe(name, roi_img, (x, y, w, h), notes) with the
\* region cut out of the frame
CreateRecipe(name, img, notes) ==
  Created(name, img,
          create_recipe(name, img, <<10, 10, img.size[1], img.size[2]>>, notes))

Saved(r, res) ==
  /\ Called
  /\ store' = res.st
  /\ storeOp' = [op |-> "save", name |-> r.name, img |-> None, ok |-> res.ok,
                 recipe |-> r]
  /\ lastSaved' = IF res.ok THEN [lastSaved EXCEPT ![r.name] = r]
                  ELSE lastSaved
  /\ halfDeleted' = IF res.ok THEN halfDeleted \ {r.name} ELSE halfDeleted
  /\ UNCHANGED <<current_recipe, trackers>>
  /\ UNCHANGED <<pipeVars, seqVars, queueVars, coordVars, raceVars, settingVars>>

\* save_recipe(current_recipe)
SaveRecipe(io) ==
  /\ current_recipe.ok
  /\ Saved(current_recipe, save_recipe(store, current_recipe, io))

Loaded(name, r) ==
  /\ Called
  /\ current_recipe' = IF r.ok THEN r ELSE current_recipe
  /\ storeOp' = [op |-> "load", name |-> name, img |-> None, ok |-> r.ok,
                 recipe |-> r]
  /\ UNCHANGED <<store, trackers, lastSaved, halfDeleted>>
  /\ UNCHANGED <<pipeVars, seqVars, queueVars, coordVars, raceVars, settingVars>>

\* load_recipe(name)
LoadRecipe(name) == Loaded(name, load_recipe(store, name))

Deleted(name, res) ==
  /\ Called
  /\ store' = res.st
  /\ storeOp' = [op |-> "delete", name |-> name, img |-> None, ok |-> res.ok,
                 recipe |-> NoRecipe]
  /\ lastSaved' = IF res.ok THEN [lastSaved EXCEPT ![name] = NoRecipe]
                  ELSE lastSaved
  /\ halfDeleted' = IF res.ok THEN halfDeleted \ {name}
                    ELSE IF res.st # store THEN halfDeleted \cup {name}
                    ELSE halfDeleted
  /\ UNCHANGED <<current_recipe, trackers>>
  /\ UNCHANGED <<pipeVars, seqVars, queueVars, coordVars, raceVars, settingVars>>

\* delete_recipe(name)
DeleteRecipe(name, gone) == Deleted(name, delete_recipe(store, name, gone))

StoreNext ==
  \/ \E name \in StoreCallNames, img \in RegionImages, notes \in NoteTexts :
        CreateRecipe(name, img, notes)
  \/ \E io \in SaveOutcomes : SaveRecipe(io)
  \/ \E name \in LoadNames : LoadRecipe(name)
  \/ \E name \in StoreCallNames, gone \in SUBSET RecipeFiles :
        DeleteRecipe(name, gone)

(***************************************************************************)
(* SingleTracker.reset and SingleTracker.process_frame statement by        *)
(* statement.  MultiTrackerPipeline.force_reacquire calls reset on the     *)
(* caller's thread, _process_frame calls process_frame on the consumption  *)
(* thread, and no lock is held by either: the statements of the two        *)
(* interleave.                                                             *)
(***************************************************************************)
\* the frames of this part
RaceScenes == {Blank, Scene1, Scene2}

\* the k-th assignment of SingleTracker.reset
ST_reset_step(t, k) ==
  CASE k = 1 -> [t EXCEPT !.state = SEARCH]
    [] k = 2 -> [t EXCEPT !.current_bbox = None]
    [] k = 3 -> [t EXCEPT !.current_corners = None]
    [] k = 4 -> [t EXCEPT !.prev_bbox = None]
    [] k = 5 -> [t EXCEPT !.fail_count = 0]
    [] OTHER -> t

\* the locals of a process_frame call at position pc
ProcAt(pc, m, sm, fc) == [pc |-> pc, m |-> m, sm |-> sm, fc |-> fc]

\* One statement of SingleTracker.process_frame (with _smooth_bbox inlined)
\* on tracker t with locals p: the tracker and the locals after it.
\* "raised": self.prev_bbox[0] on a prev_bbox that is None by now.
ST_process_step(t, p, frame) ==
  CASE p.pc = "match" ->
         IF t.template_descriptors = None
         THEN [t |-> t, p |-> [p EXCEPT !.pc = "done"]]
         ELSE [t |-> t,
               p |-> [p EXCEPT !.m = ST_match_orb_with_homography(t, frame),
                               !.pc = IF ST_match_orb_with_homography(t, frame).ok
                                      THEN "smooth_check" ELSE "count_read"]]
    [] p.pc = "smooth_check" ->
         [t |-> t,
          p |-> [p EXCEPT !.pc = IF t.prev_bbox = None THEN "seed"
                                 ELSE "smooth_read"]]
    [] p.pc = "seed" ->
         [t |-> [t EXCEPT !.prev_bbox = p.m.bbox],
          p |-> [p EXCEPT !.sm = p.m.bbox, !.pc = "set_bbox"]]
    [] p.pc = "smooth_read" ->
         IF t.prev_bbox = None
         THEN [t |-> t, p |-> [p EXCEPT !.pc = "raised"]]
         ELSE [t |-> t,
               p |-> [p EXCEPT !.sm = smooth_bbox(t.prev_bbox, p.m.bbox),
                               !.pc = "smooth_write"]]
    [] p.pc = "smooth_write" ->
         [t |-> [t EXCEPT !.prev_bbox = p.sm],
          p |-> [p EXCEPT !.pc = "set_bbox"]]
    [] p.pc = "set_bbox" ->
         [t |-> [t EXCEPT !.current_bbox = p.sm],
          p |-> [p EXCEPT !.pc = "set_corners"]]
    [] p.pc = "set_corners" ->
         [t |-> [t EXCEPT !.current_corners = p.m.corners],
          p |-> [p EXCEPT !.pc = "clear_count"]]
    [] p.pc = "clear_count" ->
         [t |-> [t EXCEPT !.fail_count = 0],
          p |-> [p EXCEPT !.pc = "set_state"]]
    [] p.pc = "set_state" ->
         [t |-> [t EXCEPT !.state = TRACK], p |-> [p EXCEPT !.pc = "done"]]
    [] p.pc = "count_read" ->
         [t |-> t, p |-> [p EXCEPT !.fc = t.fail_count, !.pc = "count_write"]]
    [] p.pc = "count_write" ->
         [t |-> [t EXCEPT !.fail_count = p.fc + 1],
          p |-> [p EXCEPT !.pc = "carry_check"]]
    [] p.pc = "carry_check" ->
         [t |-> t,
          p |-> [p EXCEPT !.pc =
                   IF t.current_bbox # None /\ t.fail_count < MaxFailCount
                   THEN "done" ELSE "lost_check"]]
    [] p.pc = "lost_check" ->
         [t |-> t,
          p |-> [p EXCEPT !.pc = IF t.fail_count >= MaxFailCount
                                 THEN "lost_state" ELSE "done"]]
    [] p.pc = "lost_state" ->
         [t |-> [t EXCEPT !.state = LOST], p |-> [p EXCEPT !.pc = "lost_bbox"]]
    [] p.pc = "lost_bbox" ->
         [t |-> [t EXCEPT !.current_bbox = None],
          p |-> [p EXCEPT !.pc = "lost_prev"]]
    [] p.pc = "lost_prev" ->
         [t |-> [t EXCEPT !.prev_bbox = None], p |-> [p EXCEPT !.pc = "done"]]
    [] OTHER -> [t |-> t, p |-> p]

RaceInit ==
  /\ rt = ST_init(load_recipe(InitialStore, "A"), 0)
  /\ rWarm = 0
  /\ rFrame = None
  /\ resetPc = 0
  /\ procPc = "idle"
  /\ procM = NoMatch
  /\ procSm = None
  /\ procFc = 0
  /\ rExpect = {}

\* before the two calls meet, the consumption thread processes a frame
RaceWarm(sc) ==
  /\ rFrame = None
  /\ rWarm < MaxWarm
  /\ rWarm' = rWarm + 1
  /\ rt' = ST_process_frame(rt, MkFrame(0, sc)).t
  /\ UNCHANGED <<rFrame, resetPc, procPc, procM, procSm, procFc, rExpect>>
  /\ UNCHANGED <<trackVars, seqVars, queueVars, coordVars, storeVars, settingVars>>

\* force_reacquire is called while process_frame is called with a frame
RaceStart(sc) ==
  /\ rFrame = None
  /\ rFrame' = MkFrame(0, sc)
  /\ resetPc' = 1
  /\ procPc' = "match"
  /\ rExpect' = {ST_process_frame(ST_reset(rt), MkFrame(0, sc)).t,
                 ST_reset(ST_process_frame(rt, MkFrame(0, sc)).t)}
  /\ UNCHANGED <<rt, rWarm, procM, procSm, procFc>>
  /\ UNCHANGED <<trackVars, seqVars, queueVars, coordVars, storeVars, settingVars>>

\* the caller thread executes the next assignment of reset
ResetStep ==
  /\ resetPc \in 1..5
  /\ rt' = ST_reset_step(rt, resetPc)
  /\ resetPc' = resetPc + 1
  /\ UNCHANGED <<rWarm, rFrame, procPc, procM, procSm, procFc, rExpect>>
  /\ UNCHANGED <<trackVars, seqVars, queueVars, coordVars, storeVars, settingVars>>

\* the consumption thread's process_frame went on to s
ProcStepped(s) ==
  /\ rt' = s.t
  /\ procPc' = s.p.pc
  /\ procM' = s.p.m
  /\ procSm' = s.p.sm
  /\ procFc' = s.p.fc

\* the consumption thread executes the next statement of process_frame
ProcStep ==
  /\ procPc \notin {"idle", "done", "raised"}
  /\ ProcStepped(ST_process_step(rt, ProcAt(procPc, procM, procSm, procFc),
                                 rFrame))
  /\ UNCHANGED <<rWarm, rFrame, resetPc, rExpect>>
  /\ UNCHANGED <<trackVars, seqVars, queueVars, coordVars, storeVars, settingVars>>

RaceNext ==
  \/ \E sc \in RaceScenes : RaceWarm(sc)
  \/ \E sc \in RaceScenes : RaceStart(sc)
  \/ ResetStep
  \/ ProcStep

(***************************************************************************)
(* Specifications                                                          *)
(***************************************************************************)

\* the tracker state machines; the queues are not in use
Init ==
  /\ TrackInit /\ SeqInit /\ QueueStart("tp") /\ atStop = None
  /\ CoordInit /\ StoreInit /\ SettingInit /\ RaceInit

Spec == Init /\ [][TrackNext]_vars

\* one SingleTracker with reset and process_frame on two threads
SpecRace == Init /\ [][RaceNext]_vars

\* both pipelines given frames around the limits of the geometry checks
SpecGeom == Init /\ [][GeomNext]_vars
SpecBox == Init /\ [][BoxNext]_vars

\* the three queues driven by one thread
SpecSeq == Init /\ [][SeqNext]_vars

\* one queue with its producer and consumer threads
InitQueue ==
  /\ TrackInit /\ SeqInit /\ QueueInit /\ CoordInit /\ StoreInit
  /\ SettingInit /\ RaceInit

SpecQueue == InitQueue /\ [][QueueNext]_vars

\* the same threads, each scheduled again and again: a started thread that
\* can take a step of its loop eventually takes one
SpecStop ==
  InitQueue /\ [][StopNext]_vars /\ WF_vars(CamThread) /\ WF_vars(RunThread)

\* The threads and their callers with a device whose reads can fail
ReadNext == StopNext \/ CamReadFail

SpecRead == InitQueue /\ [][ReadNext]_vars

\* A pipeline, its callers and its stop() observed
HaltNext ==
  \/ stop
  \/ \E p \in Producers : PutCall(p)
  \/ \E p \in Producers : PutStep(p)
  \/ RunCheck
  \/ RunGet
  \/ \E bad \in BOOLEAN : RunProcess(bad)

InitHalt ==
  /\ TrackInit /\ SeqInit /\ HaltInit /\ CoordInit /\ StoreInit
  /\ SettingInit /\ RaceInit

SpecHalt == InitHalt /\ [][HaltNext]_vars

\* The same with every put_frame call, which never blocks, run to its end
SpecRun ==
  /\ InitQueue
  /\ [][StopNext]_vars
  /\ WF_vars(CamThread)
  /\ WF_vars(RunThread)
  /\ \A p \in Producers : WF_vars(PutStep(p))

\* MultiTrackerPipeline with its caller and its consumption thread
SpecCoord == Init /\ [][CoordNext]_vars

\* The recipe manager driven by one caller
SpecStore == Init /\ [][StoreNext]_vars

(***************************************************************************)
(* Claims about the tracker state machines (specification Spec)            *)
(***************************************************************************)

\* C1: TrackerPipeline in TRACK with fail counter 0 and a known bbox stays in
\* TRACK through the first four consecutive failed frames, is LOST on the
\* fifth with LOST and no bbox in the emitted result, and is REACQUIRE
\* after the next processed frame, whatever that frame shows.
C1_LostOnFifthFailure ==
  /\ tpRun \in 1..4 => tp.state = TRACK /\ tpOut[1].result.state = TRACK
  /\ tpRun = 5 => /\ tp.state = LOST
                  /\ tpOut[1].result.state = LOST
                  /\ tpOut[1].result.bbox = None
  /\ tpRun = 6 => tp.state = REACQUIRE /\ tpOut[1].result.state = REACQUIRE

C1_Witness ==
  tpRun = 6 /\ tp.state = REACQUIRE /\ tp.fail_count = 5

\* C2: every tracker of MultiTrackerPipeline in TRACK is LOST on the fifth
\* consecutive failed frame, with no bbox in its result, and reports
\* REACQUIRE for the next processed frame.
C2_TrackersLostThenReacquire ==
  \A i \in DOMAIN trackers :
    /\ mtRun[i] = 5 => /\ trackers[i].state = LOST
                       /\ mtOut[1].results[i].state = LOST
                       /\ mtOut[1].results[i].bbox = None
    /\ mtRun[i] = 6 => /\ trackers[i].state = REACQUIRE
                       /\ mtOut[1].results[i].state = REACQUIRE

\* C3: with the same single template and the same operations and match
\* outcomes, TrackerPipeline and MultiTrackerPipeline report the same
\* state, bbox and score for every frame.
C3_SingleAndMultiAgree ==
  (paired /\ lastOp = "frame") =>
     /\ Len(mtOut[1].results) = 1
     /\ mtOut[1].results[1].state = tpOut[1].result.state
     /\ mtOut[1].results[1].bbox = tpOut[1].result.bbox
     /\ mtOut[1].results[1].score = tpOut[1].result.score

\* C9: as long as set_recipe was never called, TrackerPipeline is IDLE after
\* every processed frame and the result emitted for it is the empty IDLE
\* result; MultiTrackerPipeline without trackers emits an empty result list.
C9_IdleWithoutTemplate ==
  /\ (tp.recipe = "" /\ lastOp = "frame") =>
       /\ tp.state = IDLE
       /\ tpOut[1].result = [state |-> IDLE, bbox |-> None, corners |-> None,
                             score |-> 0, matches |-> 0]
  /\ (trackers = <<>> /\ lastOp = "frame") => mtOut[1].results = <<>>

\* C10: a second force-reacquire in a row changes no tracker field of either
\* pipeline, and the fail counters are zero after it.
C10_ForceReacquireIdempotent ==
  forceRun = 2 =>
     /\ <<tp, trackers>> = forceSnap
     /\ tp.fail_count = 0
     /\ \A i \in DOMAIN trackers : trackers[i].fail_count = 0

C10_Witness ==
  /\ forceRun = 2
  /\ tp.state = REACQUIRE
  /\ Len(trackers) = 1
  /\ tp.current_corners # None

\* C11: every TrackerPipeline.force_reacquire call leaves state REACQUIRE,
\* no current bbox, no current corners, no previous bbox and fail counter 0,
\* and changes neither the template descriptors, keypoints nor size.
C11_ForceReacquireClears ==
  [][lastOp' = "force" =>
       /\ tp'.state = REACQUIRE
       /\ tp'.current_bbox = None
       /\ tp'.current_corners = None
       /\ tp'.prev_bbox = None
       /\ tp'.fail_count = 0
       /\ tp'.template_descriptors = tp.template_descriptors
       /\ tp'.template_keypoints = tp.template_keypoints
       /\ tp'.template_size = tp.template_size]_vars

\* C12: after MultiTrackerPipeline.force_reacquire has returned, every
\* tracker of the list is in REACQUIRE with bbox, corners and previous bbox
\* cleared and fail counter 0.
C12_AllTrackersReacquire ==
  lastOp = "force" =>
    \A i \in DOMAIN trackers :
      /\ trackers[i].state = REACQUIRE
      /\ trackers[i].current_bbox = None
      /\ trackers[i].current_corners = None
      /\ trackers[i].prev_bbox = None
      /\ trackers[i].fail_count = 0

\* C13: a successful match of a tracker that has a previous smoothed bbox
\* reports, in every coordinate, the integer part of the exact value of
\* 0.6 * raw + 0.4 * previous, and the reported bbox becomes the previous
\* bbox; in TrackerPipeline and in every SingleTracker.
SmoothingLaw(raw, prev) == [i \in 1..4 |-> (6 * raw[i] + 4 * prev[i]) \div 10]

C13_SmoothingLaw ==
  [][lastOp' = "frame" =>
       /\ (tpMatch'.ok /\ tp.prev_bbox # None) =>
            /\ tpOut'[1].result.bbox = SmoothingLaw(tpMatch'.bbox, tp.prev_bbox)
            /\ tp'.prev_bbox = tpOut'[1].result.bbox
       /\ \A i \in DOMAIN trackers :
            (mtMatch'[i].ok /\ trackers[i].prev_bbox # None) =>
              /\ mtOut'[1].results[i].bbox =
                   SmoothingLaw(mtMatch'[i].bbox, trackers[i].prev_bbox)
              /\ trackers'[i].prev_bbox = mtOut'[1].results[i].bbox]_vars

\* C14: when a frame's match fails (the fail counter goes up by one) and
\* the new counter is below 5 and the tracker has a bbox, the state stays,
\* the bbox is kept, and the result carries that bbox and the corners, which
\* are those of the previous emission, with score 0.3.  Processing a frame
\* clears a stored bbox only when the failure brings the counter to 5.
\* t, u: the tracker before and after; r, old: this emission's result and
\* the previous one's; m: what matching gave.
CarriedOver(t, u, r, old, m) ==
  /\ (~m.ok /\ u.fail_count = t.fail_count + 1 /\ u.fail_count < MaxFailCount
        /\ t.current_bbox # None) =>
       /\ u.state = t.state
       /\ u.current_bbox = t.current_bbox
       /\ r.state = t.state
       /\ r.bbox = t.current_bbox /\ r.bbox = old.bbox
       /\ r.corners = t.current_corners /\ r.corners = old.corners
       /\ r.score = CarryScore
  /\ (t.current_bbox # None /\ u.current_bbox = None) =>
       ~m.ok /\ u.fail_count = MaxFailCount /\ t.fail_count = MaxFailCount - 1

C14_CarryOver ==
  [][lastOp' = "frame" =>
       /\ tp.current_bbox # None =>
            CarriedOver(tp, tp', tpOut'[1].result, tpOut[1].result, tpMatch')
       /\ \A i \in DOMAIN trackers :
            trackers[i].current_bbox # None =>
              CarriedOver(trackers[i], trackers'[i], mtOut'[1].results[i],
                          mtOut[1].results[i], mtMatch'[i])]_vars

C14_Witness ==
  /\ lastOp = "frame"
  /\ ~tpMatch.ok /\ tp.fail_count = 4 /\ tp.state = TRACK
  /\ tpOut[1].result.score = CarryScore
  /\ tpOut[1].result.corners # None
  /\ Len(trackers) = 1
  /\ ~mtMatch[1].ok /\ trackers[1].fail_count = 4
  /\ mtOut[1].results[1].score = CarryScore

\* C25: processing a frame whose match succeeds from SEARCH, REACQUIRE or
\* TRACK leaves the tracker in TRACK with fail counter 0; the emitted result
\* carries TRACK and the bbox the smoothing returned, and that bbox is the
\* tracker's current bbox.  t, u: the tracker before and after; r: the
\* result; m: what matching gave.
Succeeded(t, u, r, m) ==
  (m.ok /\ t.state \in {SEARCH, REACQUIRE, TRACK}) =>
     /\ u.state = TRACK
     /\ u.fail_count = 0
     /\ r.state = TRACK
     /\ r.bbox = smooth_bbox(t.prev_bbox, m.bbox)
     /\ r.bbox # None
     /\ u.current_bbox = r.bbox

C25_SuccessTransition ==
  [][lastOp' = "frame" =>
       /\ Succeeded(tp, tp', tpOut'[1].result, tpMatch')
       /\ \A i \in DOMAIN trackers :
            Succeeded(trackers[i], trackers'[i], mtOut'[1].results[i],
                      mtMatch'[i])]_vars

\* C25 witness: a frame matched by both pipelines left both trackers in
\* TRACK with the emitted bbox as their current bbox
C25_Witness ==
  /\ lastOp = "frame"
  /\ tpMatch.ok /\ tp.state = TRACK /\ tpRun = 0
  /\ tpOut[1].result.bbox = tp.current_bbox
  /\ Len(trackers) = 1
  /\ mtMatch[1].ok /\ trackers[1].state = TRACK
  /\ mtOut[1].results[1].bbox = trackers[1].current_bbox

\* C26: the first successful match after the template was assigned, after
\* a force-reacquire or reset, or after the tracker went LOST reports the
\* bbox matching gave, unchanged, and that bbox is the previous bbox of the
\* next smoothing; in TrackerPipeline and in every SingleTracker.
\* seed: no successful match since; matching: the frame was matched;
\* u: the tracker after the frame; r: the result; m: what matching gave.
Seeded(seed, matching, u, r, m) ==
  (seed /\ matching /\ m.ok) =>
     /\ r.bbox = m.bbox
     /\ u.prev_bbox = m.bbox

C26_Seeding ==
  [][lastOp' = "frame" =>
       /\ Seeded(tpSeed, tp.state \in {SEARCH, REACQUIRE, TRACK}, tp',
                 tpOut'[1].result, tpMatch')
       /\ \A i \in DOMAIN trackers :
            Seeded(mtSeed[i], trackers[i].template_descriptors # None,
                   trackers'[i], mtOut'[1].results[i], mtMatch'[i])]_vars

\* C26 witness: both pipelines, forced to re-search and then given a frame
\* that matches, report the bbox matching gave and hold it as previous bbox
C26_Witness ==
  /\ lastOp = "frame"
  /\ tpMatch.ok /\ ~tpSeed /\ tp.fail_count = 0
  /\ tpOut[1].result.bbox = tpMatch.bbox /\ tp.prev_bbox = tpMatch.bbox
  /\ tpTwin # None /\ tpTwin.t.state = TRACK
  /\ Len(trackers) = 1
  /\ mtMatch[1].ok /\ ~mtSeed[1]
  /\ mtOut[1].results[1].bbox = mtMatch[1].bbox
  /\ trackers[1].prev_bbox = mtMatch[1].bbox

\* the state up to the SEARCH / REACQUIRE label
Label(st) == IF st = REACQUIRE THEN SEARCH ELSE st

\* C27: a TrackerPipeline in REACQUIRE, entered from LOST or by
\* force_reacquire, goes through the same states (up to the SEARCH /
\* REACQUIRE label) and emits the same bboxes as a TrackerPipeline in SEARCH
\* just after set_recipe given the same frames; so it is LOST again only
\* after five consecutive failed matches.
C27_ReacquireLikeSearch ==
  (lastOp = "frame" /\ tpTwin # None) =>
     /\ Label(tp.state) = Label(tpTwin.t.state)
     /\ tpOut[1].result.bbox = tpTwin.result.bbox

\* tracker t, matching frame, finds a homography with enough inliers
HomographyPath(t, frame) ==
  /\ t.template_descriptors # None
  /\ frame.kp >= MinFrameKeypoints
  /\ frame.feat[t.recipe].good >= MinGoodMatches
  /\ t.template_keypoints # None
  /\ t.template_keypoints = t.template_descriptors
  /\ frame.feat[t.recipe].H
  /\ frame.feat[t.recipe].inliers >= MinInliers

\* the box r is at least 20 px wide and high, at most 90% of the frame in
\* each dimension and at most 50 px beyond each edge of the frame
WithinGuard(frame, r) ==
  /\ r[3] >= 20 /\ r[4] >= 20
  /\ 10 * r[3] <= 9 * frame.w /\ 10 * r[4] <= 9 * frame.h
  /\ r[1] >= -50 /\ r[2] >= -50
  /\ r[1] + r[3] <= frame.w + 50
  /\ r[2] + r[4] <= frame.h + 50

\* C29: a match found through the homography is accepted only if the
\* reprojected box is within the geometry guard; in every other case the
\* frame is a failed match: the fail counter goes up by one and the result
\* carries no bbox other than the one the tracker already had.
\* matching: the frame was matched; t, u: the tracker before and after;
\* r: the result; m: what matching gave.
Guarded(matching, t, u, r, m, frame) ==
  (matching /\ HomographyPath(t, frame)) =>
     /\ m.ok => WithinGuard(frame, BoundingRect(frame.feat[t.recipe].corners))
     /\ ~WithinGuard(frame, BoundingRect(frame.feat[t.recipe].corners)) =>
          /\ ~m.ok
          /\ u.fail_count = t.fail_count + 1
          /\ r.bbox \in {None, t.current_bbox}
          /\ u.current_bbox \in {None, t.current_bbox}

C29_GeometryGuard ==
  [][lastOp' = "frame" =>
       /\ Guarded(tp.state \in {SEARCH, REACQUIRE, TRACK}, tp, tp',
                  tpOut'[1].result, tpMatch', fed')
       /\ \A i \in DOMAIN trackers :
            Guarded(trackers[i].template_descriptors # None, trackers[i],
                    trackers'[i], mtOut'[1].results[i], mtMatch'[i],
                    fed')]_vars

\* C29 witness: both pipelines, tracking, were given a frame whose
\* reprojected box is one pixel too narrow and carried their bbox over
C29_Witness ==
  /\ lastOp = "frame"
  /\ fed.feat["A"].corners = Quad(200, 200, MinBoxSide - 1, 100)
  /\ tp.recipe = "A" /\ tp.state = TRACK /\ tp.fail_count = 1
  /\ ~tpMatch.ok /\ tpOut[1].result.bbox = tp.current_bbox
  /\ Len(trackers) = 1
  /\ trackers[1].state = TRACK /\ trackers[1].fail_count = 1
  /\ ~mtMatch[1].ok

\* tracker t, matching frame, has at least 8 accepted matches but no
\* template keypoint positions, no homography or fewer than 6 inliers
LowInlierPath(t, frame) ==
  /\ t.template_descriptors # None
  /\ frame.kp >= MinFrameKeypoints
  /\ frame.feat[t.recipe].good >= MinGoodMatches
  /\ \/ t.template_keypoints = None
     \/ ~frame.feat[t.recipe].H
     \/ frame.feat[t.recipe].inliers < MinInliers

\* the bounding box of the matched frame points, scaled to the template's
\* aspect ratio with a 20% margin
FallbackBox(t, frame) ==
  SimpleBox(BoundingRect(frame.feat[t.recipe].pts),
            t.template_size[1], t.template_size[2])

\* that box is valid: at least 20 px and at most the frame in each dimension
FallbackValid(frame, b) ==
  b[3] >= 20 /\ b[4] >= 20 /\ b[3] <= frame.w /\ b[4] <= frame.h

\* matching: the frame was matched; t, u: the tracker before and after;
\* m: what matching gave.
FellBack(matching, t, u, m, frame) ==
  (matching /\ LowInlierPath(t, frame)
     /\ FallbackValid(frame, FallbackBox(t, frame))) =>
       /\ m.ok
       /\ m.bbox = FallbackBox(t, frame)
       /\ u.state = TRACK
       /\ u.fail_count = 0

\* C30: on a frame with at least 8 accepted matches but fewer than 6
\* inliers, no homography or no template keypoint positions, TrackerPipeline
\* and every SingleTracker take the fallback estimate as the match and
\* track with it when that box is valid.
C30_LowInlierFallback ==
  [][lastOp' = "frame" =>
       /\ FellBack(tp.state \in {SEARCH, REACQUIRE, TRACK}, tp, tp',
                   tpMatch', fed')
       /\ \A i \in DOMAIN trackers :
            FellBack(trackers[i].template_descriptors # None, trackers[i],
                     trackers'[i], mtMatch'[i], fed')]_vars

\* C31: the score of every emitted result is between 0 and 1; it is
\* min(1, inliers / 20) when the match came from the homography,
\* min(1, matches / 30) when it came from the fallback estimate, 0.3 when
\* the bbox is carried over, and 0 when the result has no bbox.
\* got: matching was done and gave m; r: the result; f: the frame's features
\* for the tracker's template.
ScoreLaw(got, r, m, f) ==
  /\ r.score >= 0 /\ r.score <= ScoreOne
  /\ r.bbox = None => r.score = 0
  /\ (got /\ m.corners # None) =>
       20 * r.score = ScoreOne * (IF f.inliers > 20 THEN 20 ELSE f.inliers)
  /\ (got /\ m.corners = None) =>
       30 * r.score = ScoreOne * (IF f.good > 30 THEN 30 ELSE f.good)
  /\ (~got /\ r.bbox # None) => 10 * r.score = 3 * ScoreOne

C31_ScoreLaw ==
  [][lastOp' = "frame" =>
       /\ ScoreLaw(tp.state \in {SEARCH, REACQUIRE, TRACK} /\ tpMatch'.ok,
                   tpOut'[1].result, tpMatch',
                   IF tp.recipe = "" THEN FeatNone ELSE fed'.feat[tp.recipe])
       /\ \A i \in DOMAIN trackers :
            ScoreLaw(trackers[i].template_descriptors # None /\ mtMatch'[i].ok,
                     mtOut'[1].results[i], mtMatch'[i],
                     fed'.feat[trackers[i].recipe])]_vars

\* C31 witness: a homography with 24 inliers gave both pipelines score 1
C31_Witness ==
  /\ lastOp = "frame"
  /\ tpMatch.ok /\ tpMatch.inliers = 24 /\ tpOut[1].result.score = ScoreOne
  /\ Len(trackers) = 1
  /\ mtMatch[1].ok /\ mtOut[1].results[1].score = ScoreOne

\* C33: the fail counter of TrackerPipeline and of every SingleTracker is
\* between 0 and 5 (max_fail_count) in every reachable state.
C33_FailCountBounded ==
  /\ tp.fail_count >= 0 /\ tp.fail_count <= MaxFailCount
  /\ \A i \in DOMAIN trackers :
       trackers[i].fail_count >= 0 /\ trackers[i].fail_count <= MaxFailCount

\* C34: with frames and calls handled one after the other, a tracker in
\* TRACK has a last known bbox, and a tracker in LOST has neither a last
\* known bbox nor a previous bbox; after every processed frame, every
\* force-reacquire and every set_recipe call.
StateBoxConsistent(t) ==
  /\ t.state = TRACK => t.current_bbox # None
  /\ t.state = LOST => t.current_bbox = None /\ t.prev_bbox = None

C34_StateBoxConsistent ==
  /\ StateBoxConsistent(tp)
  /\ \A i \in DOMAIN trackers : StateBoxConsistent(trackers[i])

\* C34 witness: both pipelines were tracking and went LOST on the fifth
\* failed frame
C34_Witness ==
  /\ lastOp = "frame"
  /\ tpRun = 5 /\ tp.state = LOST
  /\ Len(trackers) = 1
  /\ mtRun[1] = 5 /\ trackers[1].state = LOST

\* C35: whenever MultiTrackerPipeline.force_reacquire on the caller thread
\* and process_frame on the consumption thread have both finished, the
\* tracker's fields are those of one of the two sequential orders of the two
\* operations, and the tracker is not in a mixed state such as TRACK with no
\* bbox (specification SpecRace).
C35_ForceReacquireAtomic ==
  (resetPc = 6 /\ procPc \in {"done", "raised"}) =>
     /\ rt \in rExpect
     /\ StateBoxConsistent(rt)

\* C36: an emitted result with corners has a bbox, and its corners are
\* those of the tracker's last successful match since the template was
\* assigned, a force-reacquire or a LOST transition -- on a carried-over
\* result the match that produced the carried-over bbox; corners obtained
\* before such an event are not emitted after it.
\* got: the frame was matched with success; r: the result; good, after: the
\* corners of the last successful match before and after the frame.
CornersLive(got, r, good, after) ==
  /\ r.corners # None =>
       /\ r.bbox # None
       /\ after # <<>>
       /\ r.corners = after[1]
  /\ (~got /\ r.bbox # None) =>
       /\ good # <<>>
       /\ r.corners = good[1]

C36_CornersWithBbox ==
  [][lastOp' = "frame" =>
       /\ CornersLive(tp.state \in {SEARCH, REACQUIRE, TRACK} /\ tpMatch'.ok,
                      tpOut'[1].result, tpGood, tpGood')
       /\ \A i \in DOMAIN trackers :
            CornersLive(trackers[i].template_descriptors # None
                          /\ mtMatch'[i].ok,
                        mtOut'[1].results[i], mtGood[i], mtGood'[i])]_vars

\* C36 witness: TrackerPipeline still stores the corners of a match made
\* before it went LOST and emitted a result without corners for a frame
\* that did not match; the tracker of MultiTrackerPipeline carried the
\* corners of its last match over
C36_Witness ==
  /\ lastOp = "frame"
  /\ ~tpMatch.ok /\ tpGood = <<>> /\ tp.current_corners # None
  /\ tpOut[1].result.corners = None
  /\ Len(trackers) = 1
  /\ ~mtMatch[1].ok /\ mtGood[1] # <<>>
  /\ mtOut[1].results[1].corners # None

\* C37: every bbox in an emitted result -- fresh, smoothed or carried
\* over -- has x >= 0, y >= 0, w >= 20 and h >= 20.
ValidBox(b) ==
  b # None => b[1] >= 0 /\ b[2] >= 0 /\ b[3] >= MinBoxSide /\ b[4] >= MinBoxSide

C37_EmittedBoxValid ==
  lastOp = "frame" =>
    /\ ValidBox(tpOut[1].result.bbox)
    /\ \A i \in DOMAIN trackers : ValidBox(mtOut[1].results[i].bbox)

\* C37 witness: both pipelines matched a box 20 px wide at x = 3 and
\* emitted it smoothed against the previous box: 20 px wide and high, left
\* of the match
C37_Witness ==
  /\ lastOp = "frame"
  /\ tpMatch.ok /\ tpMatch.bbox = <<3, 0, MinBoxSide, MinBoxSide + 1>>
  /\ tpOut[1].result.bbox # None
  /\ tpOut[1].result.bbox[1] < 3
  /\ tpOut[1].result.bbox[3] = MinBoxSide
  /\ tpOut[1].result.bbox[4] = MinBoxSide
  /\ Len(trackers) = 1
  /\ mtMatch[1].ok /\ mtMatch[1].bbox = <<3, 0, MinBoxSide, MinBoxSide + 1>>
  /\ mtOut[1].results[1].bbox # None
  /\ mtOut[1].results[1].bbox[1] < 3
  /\ mtOut[1].results[1].bbox[3] = MinBoxSide
  /\ mtOut[1].results[1].bbox[4] = MinBoxSide

\* C40: every result produced by a successful match, through the
\* homography with at least 6 inliers or through the fallback with at least
\* 8 matches, has a score of at least 0.3, the score of a carried-over
\* result.
C40_FreshScoreAtLeastCarry ==
  lastOp = "frame" =>
    /\ tpMatch.ok => tpOut[1].result.score >= CarryScore
    /\ \A i \in DOMAIN mtMatch :
         mtMatch[i].ok => mtOut[1].results[i].score >= CarryScore

(***************************************************************************)
(* Claims about the frame queues (specifications SpecSeq and SpecQueue)    *)
(***************************************************************************)

\* C4: after n >= 2 frames were pushed into an empty queue by one thread
\* with no pop in between, the queue holds frames n-1 and n: the first pop
\* yields n-1 and the second n, for the camera push and both put_frame.
C4_DropOldestSequential ==
  \A k \in QueueOwners :
    seqPushed[k] >= 2 =>
      seqPopped[k] \o seqQ[k] = <<seqPushed[k] - 1, seqPushed[k]>>

C4_Witness ==
  \A k \in QueueOwners : seqPushed[k] = 3 /\ seqPopped[k] = <<2, 3>>

\* C5: every finished acquisition push of CameraThread.run left its frame
\* in the queue and discarded at most one frame, whatever get_frame callers
\* did meanwhile.
C5_CameraPushAtomic ==
  \A r \in pushLog : r.by = 0 => r.stored /\ Len(r.dropped) <= 1

\* C6: every finished put_frame call, from either of two caller threads,
\* left its frame in the queue and discarded at most one frame, whatever the
\* run loop popped meanwhile.
C6_PutFrameAtomic ==
  \A r \in pushLog : r.by \in Producers => r.stored /\ Len(r.dropped) <= 1

\* C7: with one producer thread per queue (CameraThread.run; one caller of
\* put_frame), the frames handed to the consumer (returned by get_frame;
\* processed by the run loop) are frames that were produced, in strictly
\* increasing order of production: none twice, none out of order.
OneProducer == prodPc[2] = "idle" /\ \A r \in pushLog : r.by # 2

InOrder(sq) == \A i, j \in DOMAIN sq : i < j => sq[i] < sq[j]

C7_FramesInOrder ==
  OneProducer =>
    /\ InOrder(delivered)
    /\ \A i \in DOMAIN delivered : delivered[i] \in 1..nextId
    /\ conCur # 0 => \A i \in DOMAIN delivered : delivered[i] < conCur

C7_Witness ==
  /\ sys = "mt"
  /\ OneProducer
  /\ delivered = <<2, 4>>

\* C28: the frame queue of CameraThread, of TrackerPipeline and of
\* MultiTrackerPipeline holds at most 2 frames in every reachable state,
\* however the steps of its producers and consumers interleave.
C28_QueueCapacity == Len(q) <= QueueMaxSize

\* C28 witness: a put_frame call found the queue filled by the other caller
\* after it had made room, and the queue holds its two frames
C28_Witness ==
  /\ sys \in {"tp", "mt"}
  /\ Len(q) = QueueMaxSize
  /\ \E r \in pushLog : ~r.stored /\ Len(r.dropped) = 1

\* a failed read leaves the acquisition loop at its head, holding no frame,
\* and leaves the queue as it was
FailedReadKeepsLoop ==
  [][readFails' > readFails =>
       /\ camPc' = "loop"
       /\ camCur' = NoFrame
       /\ q' = q
       /\ pushLog' = pushLog]_vars

\* C32: a failed device read does not end the acquisition loop and puts
\* nothing into the queue: the loop ends only after stop(), and the frame of
\* the next successful read is in the queue when its push has finished.
C32_ReadFailureRecovers ==
  /\ FailedReadKeepsLoop
  /\ [](camPc = "done" => stop_event)
  /\ [](\A r \in pushLog : (r.by = 0 /\ r.frame = retried) => r.stored)

\* C19: an open_camera call that cannot open the device leaves is_opened
\* False; and while is_opened is False the acquisition loop reads no frame
\* from the device, holds none and pushes none into the queue.
C19_FailedOpenKeepsShut ==
  [][/\ cap' = Failed => ~is_opened'
     /\ sys = "camera" /\ ~is_opened =>
          /\ nextId' = nextId
          /\ camCur' = NoFrame
          /\ pushLog' = pushLog
          /\ Len(q') <= Len(q)]_vars

\* C20: set_resolution, set_fps, set_exposure and set_gain return False
\* whenever the device did not apply the requested value and True only when
\* it did, and a call that returns False leaves the acquisition loop running.
C20_SetterReportsDevice ==
  [][setCalls' # setCalls =>
       /\ setCall'.ret = setCall'.applied
       /\ ~setCall'.ret => stop_event' = stop_event /\ camPc' = camPc]_vars

\* C21: the capture is released only in the step in which the acquisition
\* thread, having found stop_event set, leaves its loop; and once it is
\* released no frame is read from the device.
C21_ReleaseAfterLoopExit ==
  [][/\ cap' = Released /\ cap # Released =>
          stop_event /\ camPc = "loop" /\ camPc' = "done"
     /\ cap = Released => nextId' = nextId /\ camCur' = camCur]_vars

\* C21 witness: the thread read frames, saw the stop signal, left its loop
\* and released the capture
C21_Witness ==
  /\ sys = "camera"
  /\ cap = Released
  /\ camPc = "done"
  /\ stop_event
  /\ nextId >= 2

\* The owning thread's loop has exited
LoopExited ==
  IF sys = "camera" THEN camPc = "done" ELSE conPc = "done"

\* C22: once stop() has been called the acquisition loop of CameraThread and
\* the consumption loop of a pipeline eventually exit, whether the queue is
\* empty, holds frames or is being fed; and a consumption loop that finds
\* the queue empty after stop() goes back to its loop condition and exits
\* there, without a second pop.
C22_StopTerminates ==
  /\ stop_event ~> LoopExited
  /\ [][stop_event /\ conPc # conPc' =>
          /\ conPc = "get" /\ q = <<>> => conPc' = "loop"
          /\ conPc = "loop" => conPc' = "done"]_vars

\* C22 witness: a pipeline's loop has exited after stop() while its queue
\* still held a frame
C22_Witness ==
  /\ sys \in {"tp", "mt"}
  /\ stop_event
  /\ conPc = "done"
  /\ q # <<>>

\* the frames processed since stop() was called
SinceStop == SubSeq(delivered, atStop.seen + 1, Len(delivered))

\* at most one frame_processed emission after stop()
OneMoreEmission ==
  Len(SelectSeq(SinceStop,
                LAMBDA f : \A i \in DOMAIN raised : raised[i] # f)) <= 1

\* no frame that waited in the queue when stop() was called, and no frame
\* handed to put_frame after that, has been processed
LeftUnprocessed ==
  \A i \in DOMAIN SinceStop :
     SinceStop[i] \notin atStop.queued /\ SinceStop[i] <= atStop.pushed

\* C38: after stop() on a TrackerPipeline or MultiTrackerPipeline at most
\* one more frame_processed emission occurs, for the frame being taken or
\* processed at that moment; frames then waiting in the queue or pushed
\* afterwards are never processed; nothing is emitted once run has left
\* its loop.
C38_StopEndsProcessing ==
  /\ [](stop_event => OneMoreEmission /\ LeftUnprocessed)
  /\ [][conPc = "done" => delivered' = delivered]_vars

\* The frames whose processing ended with the frame_processed emission
Emitted == SelectSeq(delivered, LAMBDA f : \A i \in DOMAIN raised : raised[i] # f)

\* C23: when processing a frame raises in TrackerPipeline or
\* MultiTrackerPipeline the consumption thread goes back to its loop, and
\* as long as stop() is not called a frame waiting in the queue after that
\* is taken and processed in its turn, and emitted unless it raises too.
C23_BadFrameDoesNotKill ==
  /\ [][conPc = "process" /\ conPc' # conPc =>
          /\ conPc' = "loop"
          /\ conCur \in {delivered'[i] : i \in DOMAIN delivered'}
          /\ Len(raised') = Len(raised) =>
               Emitted' = Append(Emitted, conCur)]_vars
  /\ \A n \in 0..MaxFrames :
        (/\ sys \in {"tp", "mt"}
         /\ raised # <<>>
         /\ q # <<>>
         /\ Len(delivered) = n)
          ~> (stop_event \/ Len(delivered) > n)

\* C23 witness: the second frame raised, and the third, queued behind it,
\* was processed and emitted after it
C23_Witness ==
  /\ sys \in {"tp", "mt"}
  /\ raised = <<2>>
  /\ delivered = <<1, 2, 3>>
  /\ conPc = "loop"
  /\ ~stop_event

\* C24: each frame whose processing raised is reported exactly once by
\* error_occurred, in TrackerPipeline and in MultiTrackerPipeline alike.
C24_ErrorReportedOnce ==
  sys \in {"tp", "mt"} => errors = raised

(***************************************************************************)
(* Claims about MultiTrackerPipeline's threads (specification SpecCoord)   *)
(***************************************************************************)

\* C8: every frame_processed emission carries exactly one result per tracker
\* of self.trackers as it is when the emission happens, in list order, each
\* computed from the emitted frame.
C8_OneResultPerTracker ==
  emitted # <<>> =>
    /\ [i \in DOMAIN emitted[1].results |-> emitted[1].results[i].result.name]
         = emitted[1].listed
    /\ \A i \in DOMAIN emitted[1].results :
         emitted[1].results[i].from = emitted[1].frame


\* A tracker as its constructor leaves it
Fresh(t) == t.state = SEARCH /\ t.fail_count = 0 /\ t.current_bbox = None

\* The names of a list that load_recipe resolves, in the order of the list
ResolvedNames(names) == SelectSeq(names, LAMBDA n : load_recipe(store, n).ok)

\* C18: set_recipes(names) first discards the trackers of an earlier call;
\* each name that load_recipe resolves adds one tracker at the end of the
\* list, for that recipe, in SEARCH with fail counter 0 and no bbox; a name
\* it does not resolve adds nothing; and when the call returns the list
\* holds one tracker per resolved name, in the order of names.
C18_SetRecipesBuilds ==
  [][/\ callPc = "idle" /\ callPc' = "set" => mtTrackers' = <<>>
     /\ callPc = "set" /\ callIdx' = callIdx + 1 =>
          IF load_recipe(store, callArg[callIdx]).ok
          THEN /\ Len(mtTrackers') = Len(mtTrackers) + 1
               /\ SubSeq(mtTrackers', 1, Len(mtTrackers)) = mtTrackers
               /\ mtTrackers'[Len(mtTrackers')].recipe = callArg[callIdx]
               /\ Fresh(mtTrackers'[Len(mtTrackers')])
          ELSE mtTrackers' = mtTrackers
     /\ callPc = "set" /\ callPc' = "idle" =>
          [i \in DOMAIN mtTrackers' |-> mtTrackers'[i].recipe]
             = ResolvedNames(callArg)]_vars

\* C18 witness: after an emission that listed the single tracker of an
\* earlier call, set_recipes(<<"X", "B">>) has returned: the only tracker is
\* the one for B, built in the second pass of the loop, still as built
C18_Witness ==
  /\ callPc = "idle"
  /\ emitted # <<>>
  /\ emitted[1].listed = <<"C">>
  /\ Len(mtTrackers) = 1
  /\ mtTrackers[1].recipe = "B"
  /\ mtTrackers[1].color = 1
  /\ Fresh(mtTrackers[1])

(***************************************************************************)
(* Claims about the recipe manager (SpecStore)                             *)
(***************************************************************************)
\* C15: create_recipe returns None whenever fewer than 10 keypoints are
\* detected in the region image, and every recipe it returns has a
\* keypoint_count of at least 10 that equals the number of descriptor rows.
C15_CreateNeedsTenKeypoints ==
  storeOp.op = "create" =>
    /\ storeOp.img.kp < 10 => ~storeOp.recipe.ok
    /\ storeOp.recipe.ok =>
         /\ storeOp.recipe.keypoint_count >= 10
         /\ storeOp.recipe.descriptors # None
         /\ storeOp.recipe.keypoint_count = storeOp.recipe.descriptors.rows

\* C15 witness: a region with exactly 10 keypoints gave a recipe
C15_Witness ==
  /\ storeOp.op = "create"
  /\ storeOp.img.kp = 10
  /\ storeOp.recipe.ok
  /\ storeOp.recipe.keypoint_count = 10

\* What load_recipe must return for the saved recipe r
RoundTrip(r, got) ==
  /\ got.ok
  /\ got.descriptors = r.descriptors
  /\ got.roi = r.roi
  /\ got.name = r.name
  /\ got.notes = r.notes
  /\ got.keypoint_count = r.keypoint_count
  /\ got.keypoints = None

\* C16: after save_recipe(r) succeeded, load_recipe(r.name) returns a recipe
\* whose descriptors, roi, name, notes and keypoint_count are those of r,
\* the recipe most recently saved under that name (and not touched by a
\* delete_recipe of that name since), with keypoints absent;
\* load_recipe changes nothing in the store, and a second load_recipe right
\* after the first returns the same recipe.
C16_RoundTrip ==
  [][storeOp'.op = "load" =>
       /\ lastSaved[storeOp'.name] # NoRecipe
            /\ storeOp'.name \notin halfDeleted =>
            RoundTrip(lastSaved[storeOp'.name], storeOp'.recipe)
       /\ store' = store
       /\ storeOp.op = "load" /\ storeOp.name = storeOp'.name =>
            storeOp'.recipe = storeOp.recipe]_vars

\* C17: load_recipe(name) returns None when no recipe of that name is stored,
\* because none was ever saved or because delete_recipe(name) removed it,
\* and every recipe it returns bears the requested name.
C17_LoadOnlyTheNamedRecipe ==
  storeOp.op = "load" =>
    /\ lastSaved[storeOp.name] = NoRecipe => ~storeOp.recipe.ok
    /\ storeOp.recipe.ok => storeOp.recipe.name = storeOp.name

\* C39: after any sequence of save_recipe and delete_recipe calls, failing
\* ones included, load_recipe returns a recipe for every name that
\* list_recipes returns, and a save_recipe that returned False has left the
\* names list_recipes returns as they were.
C39_StoreConsistent ==
  /\ [](\A name \in list_recipes(store) : load_recipe(store, name).ok)
  /\ [][storeOp'.op = "save" /\ storeCalls' # storeCalls /\ ~storeOp'.ok =>
          list_recipes(store') = list_recipes(store)]_vars

=============================================================================
